---- MODULE Spec2Model ----
(***************************************************************************)
(* A model of async-backtrace (backtrace/src): the intrusive tree of       *)
(* Frames, the per-thread ACTIVE_FRAME cell, the root mutexes, the global  *)
(* TASK_SET and the task dumper, driven by client threads that create,     *)
(* poll, drop and dump framed futures.                                     *)
(*                                                                         *)
(* The client obeys the contract of the Framed wrapper: a framed future    *)
(* created while a frame is active belongs to that frame's future and is   *)
(* polled and dropped only inside it or together with it; a future created *)
(* outside every frame is a task that any thread may poll or drop.         *)
(* 0 stands for Option::None wherever a frame or a thread is optional.     *)
(***************************************************************************)
EXTENDS Integers, Sequences, FiniteSets, TLC

\* ---- bounds of the model
NFrames == 3
NThreads == 2
NShards == 2
NLocs == 1
MaxDepth == 2

\* How many threads are inside taskdump_tree at once.
MaxDumpers == 1

\* The size of the task trees that the rendering is applied to directly, and
\* the number of locations their frames are drawn from.
NTreeFrames == 5
NTreeLocs == 2

Frames == 1..NFrames
Threads == 1..NThreads
Shards == 1..NShards
Locs == 1..NLocs
TreeFrames == 1..NTreeFrames

VARIABLES
    mem,          \* per frame: "free" (no Frame lives at this address) or "live"
    owner,        \* per frame: the frame whose future owns it (0: the executor)
    location,     \* Frame.location
    kind,         \* Frame.kind: "Uninitialized", "Root" or "Node"
    parent,       \* Kind::Node { parent }
    head, tail,   \* Frame.children: LinkedList { head, tail }
    prev, next,   \* Frame.siblings: Pointers { prev, next }
    mutex,        \* Kind::Root { mutex }: the thread holding it, or 0
    poisoned,     \* the poison flag of that mutex
    TASK_SET,     \* the global set of tasks
    ACTIVE_FRAME, \* per thread: the thread-local cell
    stack,        \* per thread: the in_scope calls on its call stack
    pc,           \* per thread: where it is
    cur,          \* per thread: the frame operand of the call in progress
    dump,         \* per thread: the state of a taskdump_tree call in progress
    ret,          \* per thread: the value the last taskdump_tree call returned
    dropped,      \* per thread: initialized frames freed by its last drop
    dropping      \* per thread: the frame whose drop waits for a drop guard (or 0)

frameVars == <<mem, owner, location, kind, parent>>
listVars == <<head, tail, prev, next>>
lockVars == <<mutex, poisoned>>
threadVars == <<ACTIVE_FRAME, stack, pc, cur, dump, ret, dropped, dropping>>
vars == <<mem, owner, location, kind, parent, head, tail, prev, next, mutex,
          poisoned, TASK_SET, ACTIVE_FRAME, stack, pc, cur, dump, ret, dropped,
          dropping>>

\* ---- linked_list.rs

\* The four pointer maps as one value, so that list operations are functions.
Lists == [head : [Frames -> 0..NFrames], tail : [Frames -> 0..NFrames],
          prev : [Frames -> 0..NFrames], next : [Frames -> 0..NFrames]]

TheLists == [head |-> head, tail |-> tail, prev |-> prev, next |-> next]

\* Fault: a push_front that does not link the old head behind the new node.
push_front_alone(L, p, ptr) ==
    [L EXCEPT !.next[ptr] = 0, !.prev[ptr] = 0, !.head[p] = ptr,
              !.tail[p] = IF L.tail[p] = 0 THEN ptr ELSE L.tail[p]]

\* LinkedList::push_front on the children list of frame p.
push_front(L, p, ptr) ==
    LET l1 == [L EXCEPT !.next[ptr] = L.head[p], !.prev[ptr] = 0]
        l2 == IF L.head[p] # 0 THEN [l1 EXCEPT !.prev[L.head[p]] = ptr] ELSE l1
        l3 == [l2 EXCEPT !.head[p] = ptr]
    IN  IF l3.tail[p] = 0 THEN [l3 EXCEPT !.tail[p] = ptr] ELSE l3

\* Fault: a remove that unlinks nothing.
remove_nothing(L, p, node) == [lists |-> L, some |-> FALSE]

\* Fault: a remove without the two checks against head and tail.
remove_unchecked(L, p, node) ==
    LET pv == L.prev[node]
        nx == L.next[node]
        l1 == IF pv # 0 THEN [L EXCEPT !.next[pv] = nx] ELSE [L EXCEPT !.head[p] = nx]
        l2 == IF nx # 0 THEN [l1 EXCEPT !.prev[nx] = pv] ELSE [l1 EXCEPT !.tail[p] = pv]
    IN  [lists |-> [l2 EXCEPT !.next[node] = 0, !.prev[node] = 0], some |-> TRUE]

\* Fault: a remove that moves the head before it finds that the node is not
\* the head.
remove_moves_head(L, p, node) ==
    IF L.prev[node] = 0 /\ L.head[p] # node
    THEN [lists |-> [L EXCEPT !.head[p] = L.next[node]], some |-> FALSE]
    ELSE remove_nothing(L, p, node)

\* LinkedList::remove on the children list of frame p: the lists afterwards
\* and whether Some or None was returned. The early returns leave what was
\* already written.
remove(L, p, node) ==
    LET pv == L.prev[node]
        nx == L.next[node]
        headMiss == pv = 0 /\ L.head[p] # node
        l1 == IF pv # 0 THEN [L EXCEPT !.next[pv] = nx]
              ELSE IF headMiss THEN L
              ELSE [L EXCEPT !.head[p] = nx]
        tailMiss == nx = 0 /\ l1.tail[p] # node
        l2 == IF nx # 0 THEN [l1 EXCEPT !.prev[nx] = l1.prev[node]]
              ELSE IF tailMiss THEN l1
              ELSE [l1 EXCEPT !.tail[p] = l1.prev[node]]
    IN  IF headMiss THEN [lists |-> L, some |-> FALSE]
        ELSE IF tailMiss THEN [lists |-> l1, some |-> FALSE]
        ELSE [lists |-> [l2 EXCEPT !.next[node] = 0, !.prev[node] = 0], some |-> TRUE]

\* Iter: the nodes from curr on, following next (at most fuel of them).
RECURSIVE IterFrom(_, _, _)
IterFrom(L, curr, fuel) ==
    IF curr = 0 \/ fuel = 0 THEN <<>>
    ELSE <<curr>> \o IterFrom(L, L.next[curr], fuel - 1)

\* ---- frame.rs

\* Fault: a frame that looks uninitialized at every poll.
always_uninitialized(f) == TRUE

is_uninitialized(f) == kind[f] = "Uninitialized"

\* Frame::parent
Parent(f) == IF is_uninitialized(f) THEN 0
             ELSE IF kind[f] = "Node" THEN parent[f] ELSE 0

\* Frame::root
RECURSIVE RootFrom(_, _)
RootFrom(f, fuel) ==
    IF Parent(f) = 0 \/ fuel = 0 THEN f ELSE RootFrom(Parent(f), fuel - 1)

\* Fault: a root that climbs one parent only.
root_one_step(f) == IF Parent(f) = 0 THEN f ELSE Parent(f)

root(f) == RootFrom(f, NTreeFrames)

\* Frame::subframes: the children of f in iteration order.
subframes(L, f) == IterFrom(L, L.head[f], NTreeFrames)

\* Fault: a deep_eq that compares the two locations only.
deep_eq_location_only(L, a, b) == location[a] = location[b]

\* Frame::deep_eq: the loop over both subframe iterators, from index i on.
RECURSIVE deep_eq(_, _, _)
RECURSIVE deep_eq_loop(_, _, _, _)

\* Fault: a loop that ends with true as soon as either iterator is exhausted.
RECURSIVE deep_eq_zip(_, _, _, _)
deep_eq_zip(L, sa, sb, i) ==
    IF i <= Len(sa) /\ i <= Len(sb)
    THEN IF ~deep_eq(L, sa[i], sb[i]) THEN FALSE ELSE deep_eq_zip(L, sa, sb, i + 1)
    ELSE TRUE

deep_eq_loop(L, sa, sb, i) ==
    IF i <= Len(sa) /\ i <= Len(sb)
    THEN IF ~deep_eq(L, sa[i], sb[i]) THEN FALSE ELSE deep_eq_loop(L, sa, sb, i + 1)
    ELSE i > Len(sa) /\ i > Len(sb)

deep_eq(L, a, b) ==
    IF location[a] # location[b] THEN FALSE
    ELSE deep_eq_loop(L, subframes(L, a), subframes(L, b), 1)

\* Frame::mutex
HasMutex(f) == kind[f] = "Root"

\* The text of a dump is a sequence of tokens, one per character, with a
\* location and the [POLLING] note as single tokens. The box-drawing glyphs are
\* written  ^ for U+2514,  + for U+251C,  > for U+257C,  | for U+2502  and
\* . for U+2508.
LocName(l) == "L" \o ToString(l)

\* Fault: a backtrace that starts at the parent of the frame.
backtrace_from_parent(f, fuel) ==
    IF Parent(f) = 0 THEN <<>> ELSE <<Parent(f)>>

\* Frame::backtrace: the frame, its parent, and so on while there is one.
RECURSIVE backtrace(_, _)
backtrace(f, fuel) ==
    IF f = 0 \/ fuel = 0 THEN <<>> ELSE <<f>> \o backtrace(Parent(f), fuel - 1)

\* Backtrace::next on an iterator whose frame field is curr (0 for None): the
\* item it returns and the frame field afterwards.
BacktraceNext(curr) ==
    [item |-> curr, frame |-> IF curr = 0 THEN 0 ELSE Parent(curr)]

\* Frame::backtrace_locations
backtrace_locations(f) ==
    [i \in 1..Len(backtrace(f, NTreeFrames)) |->
        LocName(location[backtrace(f, NTreeFrames)[i]])]

\* Fault: a continuation of two columns below a last child.
Spaces2 == <<" ", " ">>

Spaces3 == <<" ", " ", " ">>

\* Frame::fmt::fmt_helper
RECURSIVE fmt_helper(_, _, _, _, _, _)
RECURSIVE fmt_subframes(_, _, _, _, _)

\* Fault: a loop that does not set copies back to 1 after a line.
RECURSIVE fmt_subframes_counting_on(_, _, _, _, _)
fmt_subframes_counting_on(L, subs, i, nextPrefix, copies) ==
    IF i > Len(subs) THEN <<>>
    ELSE IF i < Len(subs) /\ deep_eq(L, subs[i + 1], subs[i])
    THEN fmt_subframes_counting_on(L, subs, i + 1, nextPrefix, copies + 1)
    ELSE <<"\n">> \o fmt_helper(L, subs[i], i = Len(subs), nextPrefix, TRUE, copies)
                  \o fmt_subframes_counting_on(L, subs, i + 1, nextPrefix, copies)

fmt_subframes(L, subs, i, nextPrefix, copies) ==
    IF i > Len(subs) THEN <<>>
    ELSE IF i < Len(subs) /\ deep_eq(L, subs[i + 1], subs[i])
    THEN fmt_subframes(L, subs, i + 1, nextPrefix, copies + 1)
    ELSE <<"\n">> \o fmt_helper(L, subs[i], i = Len(subs), nextPrefix, TRUE, copies)
                  \o fmt_subframes(L, subs, i + 1, nextPrefix, 1)

fmt_helper(L, frame, is_last, prefix, subframes_locked, copies) ==
    LET count == IF copies # 1 THEN <<ToString(copies), "x", " ">> ELSE <<>>
        current == prefix \o (IF is_last THEN <<"^", ">", " ">> ELSE <<"+", ">", " ">>)
                          \o count \o <<LocName(location[frame])>>
        nextPrefix == prefix \o (IF is_last THEN Spaces3 ELSE <<"|", " ", " ">>)
    IN  SubSeq(current, 4, Len(current)) \o
        (IF subframes_locked
         THEN fmt_subframes(L, subframes(L, frame), 1, nextPrefix, 1)
         ELSE <<"\n">> \o prefix \o <<"^", ".", " ", "[POLLING]">>)

\* Frame::fmt
fmt(L, frame, subframes_locked) ==
    fmt_helper(L, frame, TRUE, <<" ", " ">>, subframes_locked, 1)

\* The frames fmt visits below (and including) f when it descends.
RECURSIVE Visited(_, _, _)
Visited(L, f, fuel) ==
    {f} \cup (IF fuel = 0 THEN {}
              ELSE UNION {Visited(L, subframes(L, f)[i], fuel - 1) :
                              i \in 1..Len(subframes(L, f))})

\* ---- tasks.rs

\* The shard of the DashSet that holds the task of frame f.
shard_of(f) == (f % NShards) + 1

register(S, f) == S \cup {f}

\* Fault: a deregister that leaves the entry in the set.
deregister_nothing(S, f) == S

deregister(S, f) == S \ {f}

DumpPcs == {"dstart", "dnext", "dlock", "dfmt"}

\* Fault: an iterator that holds no shard lock.
no_read_lock(s, t) == FALSE

\* tasks(): the iterator of thread u holds the read lock of the shard it is in,
\* which blocks insert and remove on that shard by every other thread.
ReadLocked(s, t) ==
    \E u \in Threads \ {t} : pc[u] \in DumpPcs /\ dump[u].shard = s

\* Task::pretty_tree: the root of the caller's active frame (0: none).
current_task(t) ==
    IF ACTIVE_FRAME[t] = 0 THEN 0 ELSE root(ACTIVE_FRAME[t])

\* Fault: a pretty_tree that never asks for the lock.
lock_never_asked(t, task) == FALSE

\* Fault: a pretty_tree that asks for the lock of the caller's own task too.
lock_always_asked(t, task) == HasMutex(task)

\* Task::pretty_tree: whether the lock of the task is asked for at all.
NeedsLock(t, task) == HasMutex(task) /\ task # current_task(t)

\* Fault: a pretty_tree that does not read the children when it skips the lock.
unlocked_without_mutex == "no"

\* Task::pretty_tree: subframes_locked when no lock is asked for (None => true).
locked_without_mutex == "yes"

\* Fault: a try_lock that waits for the mutex instead of giving up.
try_lock_waits(holder) == TRUE

\* Task::pretty_tree: subframes_locked, from the outcome of try_lock.
TryLocked(holder) == holder = 0

NoDump == [block |-> FALSE, shard |-> 0, todo |-> {}, task |-> 0, locked |-> "none",
           guard |-> FALSE, raced |-> FALSE, first |-> TRUE, out |-> <<>>, seen |-> {}]

NoRet == [call |-> "none", done |-> FALSE, block |-> FALSE, out |-> <<>>, seen |-> {},
          some |-> FALSE, bt |-> <<>>]

Min(S) == CHOOSE x \in S : \A y \in S : x <= y

\* ---- the client: who may touch which future

RECURSIVE InSubtree(_, _, _)
InSubtree(f, d, fuel) ==
    f = d \/ (fuel > 0 /\ owner[f] # 0 /\ InSubtree(owner[f], d, fuel - 1))

InStack(t, f) == \E i \in 1..Len(stack[t]) : stack[t][i].frame = f

\* Some thread is polling, entering or dropping the future of f.
Busy(f) ==
    \E t \in Threads :
        \/ InStack(t, f)
        \/ pc[t] \in {"lock", "activate"} /\ cur[t] = f
        \/ pc[t] = "drop" /\ InSubtree(f, cur[t], NFrames)
        \/ dropping[t] # 0 /\ InSubtree(f, dropping[t], NFrames)

\* Fault: a Framed that drops its frame before its future.
drop_frame_first(d) == IF mem[d] = "live" THEN {d} ELSE {}

\* The frames a drop in progress of d drops next: those of d's future that own
\* no live future (Framed drops its future before its frame).
DropLeaves(d) ==
    {x \in Frames : /\ mem[x] = "live"
                    /\ InSubtree(x, d, NFrames)
                    /\ \A y \in Frames : mem[y] = "live" => owner[y] # x}

SetLists(L) ==
    /\ head' = L.head
    /\ tail' = L.tail
    /\ prev' = L.prev
    /\ next' = L.next

\* A dump of another thread that is walking the tree of root r reads what this
\* step writes: a data race, after which what it renders is undefined.
MarkRaced(t, r) ==
    [u \in Threads |->
        IF u # t /\ pc[u] = "dfmt" /\ dump[u].locked = "yes" /\ dump[u].task = r
        THEN [dump[u] EXCEPT !.raced = TRUE] ELSE dump[u]]

\* A step that touches only the stepping thread's own cell commutes with the
\* steps of the other threads, so it is taken next to the step of the same
\* call that others can see: a thread at one of these places steps first.
PriorityPcs == {"created", "activate", "unlock", "punlock", "dstart", "dreturn",
                "dropped"}

Urgent(u) == pc[u] \in PriorityPcs \/ (pc[u] = "lock" /\ ~HasMutex(cur[u]))

Ready(t) == \A u \in Threads \ {t} : ~Urgent(u)

Init ==
    /\ mem = [f \in Frames |-> "free"]
    /\ owner = [f \in Frames |-> 0]
    /\ location = [f \in Frames |-> 0]
    /\ kind = [f \in Frames |-> "Uninitialized"]
    /\ parent = [f \in Frames |-> 0]
    /\ head = [f \in Frames |-> 0]
    /\ tail = [f \in Frames |-> 0]
    /\ prev = [f \in Frames |-> 0]
    /\ next = [f \in Frames |-> 0]
    /\ mutex = [f \in Frames |-> 0]
    /\ poisoned = [f \in Frames |-> FALSE]
    /\ TASK_SET = {}
    /\ ACTIVE_FRAME = [t \in Threads |-> 0]
    /\ stack = [t \in Threads |-> <<>>]
    /\ pc = [t \in Threads |-> "user"]
    /\ cur = [t \in Threads |-> 0]
    /\ dump = [t \in Threads |-> NoDump]
    /\ ret = [t \in Threads |-> NoRet]
    /\ dropped = [t \in Threads |-> 0]
    /\ dropping = [t \in Threads |-> 0]

\* Framed::new / Frame::new: a new future at the lowest free address, owned by
\* the future that is running (if any). Nothing can tell a frame that waits
\* uninitialized from one made later, so the client polls or drops it next.
Create(t) ==
    /\ Ready(t)
    /\ pc[t] = "user"
    /\ \E f \in Frames, l \in Locs :
        /\ mem[f] = "free"
        /\ \A g \in Frames : mem[g] = "free" => f <= g
        /\ mem' = [mem EXCEPT ![f] = "live"]
        /\ owner' = [owner EXCEPT ![f] = ACTIVE_FRAME[t]]
        /\ location' = [location EXCEPT ![f] = l]
        /\ kind' = [kind EXCEPT ![f] = "Uninitialized"]
        /\ parent' = [parent EXCEPT ![f] = 0]
        /\ head' = [head EXCEPT ![f] = 0]
        /\ tail' = [tail EXCEPT ![f] = 0]
        /\ prev' = [prev EXCEPT ![f] = 0]
        /\ next' = [next EXCEPT ![f] = 0]
        /\ cur' = [cur EXCEPT ![t] = f]
    /\ pc' = [pc EXCEPT ![t] = "created"]
    /\ UNCHANGED <<dropping, mutex, poisoned, TASK_SET, ACTIVE_FRAME, stack, dump, ret, dropped>>

\* Fault: an initialization that makes every frame a root.
initialize_as_root(t, f, maybe_parent) ==
    /\ ~ReadLocked(shard_of(f), t)
    /\ kind' = [kind EXCEPT ![f] = "Root"]
    /\ mutex' = [mutex EXCEPT ![f] = 0]
    /\ poisoned' = [poisoned EXCEPT ![f] = FALSE]
    /\ TASK_SET' = register(TASK_SET, f)
    /\ UNCHANGED <<parent, head, tail, prev, next, dump>>

\* Frame::initialize_unchecked
initialize_unchecked(t, f, maybe_parent) ==
    IF maybe_parent = 0
    THEN /\ ~ReadLocked(shard_of(f), t)
         /\ kind' = [kind EXCEPT ![f] = "Root"]
         /\ mutex' = [mutex EXCEPT ![f] = 0]
         /\ poisoned' = [poisoned EXCEPT ![f] = FALSE]
         /\ TASK_SET' = register(TASK_SET, f)
         /\ UNCHANGED <<parent, head, tail, prev, next, dump>>
    ELSE /\ kind' = [kind EXCEPT ![f] = "Node"]
         /\ parent' = [parent EXCEPT ![f] = maybe_parent]
         /\ SetLists(push_front(TheLists, maybe_parent, f))
         /\ dump' = MarkRaced(t, root(maybe_parent))
         /\ UNCHANGED <<mutex, poisoned, TASK_SET>>

\* Framed::poll -> Frame::in_scope -> activate, up to the initialization.
InScopeBegin(t, f) ==
    /\ Ready(t)
    /\ pc[t] = "user" \/ (pc[t] = "created" /\ cur[t] = f)
    /\ mem[f] = "live"
    /\ Len(stack[t]) < MaxDepth
    /\ ~Busy(f)
    /\ owner[f] = ACTIVE_FRAME[t] \/ (owner[f] = 0 /\ kind[f] = "Root")
    /\ IF is_uninitialized(f)
       THEN initialize_unchecked(t, f, ACTIVE_FRAME[t])
       ELSE UNCHANGED <<kind, parent, head, tail, prev, next, mutex, poisoned,
                        TASK_SET, dump>>
    /\ pc' = [pc EXCEPT ![t] = "lock"]
    /\ cur' = [cur EXCEPT ![t] = f]
    /\ UNCHANGED <<dropping, mem, owner, location, ACTIVE_FRAME, stack, ret, dropped>>

\* Fault: an activate that does not lock the mutex of a root frame.
activate_without_lock(t) ==
    /\ Ready(t)
    /\ pc[t] = "lock"
    /\ pc' = [pc EXCEPT ![t] = "activate"]
    /\ UNCHANGED <<dropping, frameVars, listVars, lockVars, TASK_SET, ACTIVE_FRAME, stack,
                   cur, dump, ret, dropped>>

\* activate: lock the mutex of a root frame, ignoring poisoning.
InScopeLock(t) ==
    /\ Ready(t)
    /\ pc[t] = "lock"
    /\ IF HasMutex(cur[t])
       THEN /\ mutex[cur[t]] = 0
            /\ mutex' = [mutex EXCEPT ![cur[t]] = t]
       ELSE UNCHANGED mutex
    /\ pc' = [pc EXCEPT ![t] = "activate"]
    /\ UNCHANGED <<dropping, frameVars, listVars, poisoned, TASK_SET, ACTIVE_FRAME, stack,
                   cur, dump, ret, dropped>>

\* activate: replace the active frame; from here the closure f() runs.
InScopeActivate(t) ==
    /\ Ready(t)
    /\ pc[t] = "activate"
    /\ stack' = [stack EXCEPT ![t] =
                    Append(@, [frame |-> cur[t],
                               previously_active |-> ACTIVE_FRAME[t],
                               guard |-> HasMutex(cur[t])])]
    /\ ACTIVE_FRAME' = [ACTIVE_FRAME EXCEPT ![t] = cur[t]]
    /\ pc' = [pc EXCEPT ![t] = "user"]
    /\ cur' = [cur EXCEPT ![t] = 0]
    /\ UNCHANGED <<dropping, frameVars, listVars, lockVars, TASK_SET, dump, ret, dropped>>

Top(t) == stack[t][Len(stack[t])]

\* The code of a drop guard of thread t is running where the drop was called:
\* it is not in a poll that it has started itself.
AtGuardLevel(t) == dropping[t] # 0 /\ ACTIVE_FRAME[t] = owner[dropping[t]]

\* Fault: a deferred closure that leaves the active frame as it is.
restore_nothing(t, to) ==
    /\ Ready(t)
    /\ stack[t] # <<>>
    /\ pc' = [pc EXCEPT ![t] = to]
    /\ UNCHANGED <<dropping, frameVars, listVars, lockVars, TASK_SET, ACTIVE_FRAME, stack, cur,
                   dump, ret, dropped>>

\* Fault: a deferred closure that clears the active frame.
restore_to_none(t, to) ==
    /\ Ready(t)
    /\ stack[t] # <<>>
    /\ ACTIVE_FRAME' = [ACTIVE_FRAME EXCEPT ![t] = 0]
    /\ pc' = [pc EXCEPT ![t] = to]
    /\ UNCHANGED <<dropping, frameVars, listVars, lockVars, TASK_SET, stack, cur, dump, ret,
                   dropped>>

\* The deferred closure of activate, first half: active.set(previously_active).
Restore(t, to) ==
    /\ Ready(t)
    /\ stack[t] # <<>>
    /\ ACTIVE_FRAME' = [ACTIVE_FRAME EXCEPT ![t] = Top(t).previously_active]
    /\ pc' = [pc EXCEPT ![t] = to]
    /\ UNCHANGED <<dropping, frameVars, listVars, lockVars, TASK_SET, stack, cur, dump, ret,
                   dropped>>

\* The closure returns.
Exit(t) == pc[t] = "user" /\ ~AtGuardLevel(t) /\ Restore(t, "unlock")

\* The closure panics: the unwinding runs the deferred closure.
Panic(t) == pc[t] = "user" /\ ~AtGuardLevel(t) /\ Restore(t, "punlock")

\* A panic that left one in_scope unwinds through the enclosing one.
Unwind(t) == pc[t] = "unwind" /\ ~AtGuardLevel(t) /\ Restore(t, "punlock")

\* A panic is caught (catch_unwind, or the executor's task boundary).
Catch(t) ==
    /\ Ready(t)
    /\ pc[t] = "unwind"
    /\ pc' = [pc EXCEPT ![t] = "user"]
    /\ UNCHANGED <<dropping, frameVars, listVars, lockVars, TASK_SET, ACTIVE_FRAME, stack,
                   cur, dump, ret, dropped>>

\* The deferred closure of activate, second half: drop(maybe_mutex_guard). A
\* guard dropped while the thread panics poisons the mutex.
Unlock(t) ==
    /\ Ready(t)
    /\ pc[t] \in {"unlock", "punlock"}
    /\ IF Top(t).guard
       THEN /\ mutex' = [mutex EXCEPT ![Top(t).frame] = 0]
            /\ poisoned' = [poisoned EXCEPT ![Top(t).frame] = @ \/ pc[t] = "punlock"]
       ELSE UNCHANGED <<mutex, poisoned>>
    /\ stack' = [stack EXCEPT ![t] = SubSeq(@, 1, Len(@) - 1)]
    /\ pc' = [pc EXCEPT ![t] = IF pc[t] = "unlock" THEN "user" ELSE "unwind"]
    /\ UNCHANGED <<dropping, frameVars, listVars, TASK_SET, ACTIVE_FRAME, cur, dump, ret, dropped>>

\* The future of f is dropped: its owner's closure drops it, or a thread outside
\* every frame drops a task.
DropStart(t, f) ==
    /\ Ready(t)
    /\ pc[t] = "user" \/ (pc[t] = "created" /\ cur[t] = f)
    /\ mem[f] = "live"
    /\ ~Busy(f)
    /\ owner[f] = ACTIVE_FRAME[t]
    /\ pc' = [pc EXCEPT ![t] = "drop"]
    /\ cur' = [cur EXCEPT ![t] = f]
    /\ UNCHANGED <<dropping, frameVars, listVars, lockVars, TASK_SET, ACTIVE_FRAME, stack, dump,
                   ret, dropped>>

\* The memory of frame x is given back.
Free(x) ==
    /\ mem' = [mem EXCEPT ![x] = "free"]
    /\ owner' = [owner EXCEPT ![x] = 0]
    /\ location' = [location EXCEPT ![x] = 0]
    /\ kind' = [kind EXCEPT ![x] = "Uninitialized"]
    /\ parent' = [parent EXCEPT ![x] = 0]
    /\ poisoned' = [poisoned EXCEPT ![x] = FALSE]

\* Fault: a drop without the early return for an uninitialized frame, which
\* goes on to deregister it.
frame_drop_unchecked(t, x) ==
    IF Parent(x) # 0
    THEN /\ SetLists(remove(TheLists, Parent(x), x).lists)
         /\ dump' = MarkRaced(t, root(x))
         /\ UNCHANGED TASK_SET
    ELSE /\ ~ReadLocked(shard_of(x), t)
         /\ TASK_SET' = deregister(TASK_SET, x)
         /\ UNCHANGED <<head, tail, prev, next, dump>>

\* PinnedDrop for Frame, on frame x, by thread t.
FrameDrop(t, x) ==
    IF is_uninitialized(x)
    THEN UNCHANGED <<head, tail, prev, next, TASK_SET, dump>>
    ELSE IF Parent(x) # 0
    THEN /\ SetLists(remove(TheLists, Parent(x), x).lists)
         /\ dump' = MarkRaced(t, root(x))
         /\ UNCHANGED TASK_SET
    ELSE /\ ~ReadLocked(shard_of(x), t)
         /\ TASK_SET' = deregister(TASK_SET, x)
         /\ UNCHANGED <<head, tail, prev, next, dump>>

\* Drop of Framed, one frame at a time: the future (and with it the futures it
\* owns) before the frame.
DropFrame(t) ==
    /\ Ready(t)
    /\ pc[t] = "drop"
    /\ \E x \in DropLeaves(cur[t]) :
        /\ FrameDrop(t, x)
        /\ Free(x)
        /\ dropped' = [dropped EXCEPT ![t] = IF is_uninitialized(x) THEN @ ELSE @ + 1]
        /\ IF x = cur[t]
           THEN /\ pc' = [pc EXCEPT ![t] = "dropped"]
                /\ cur' = [cur EXCEPT ![t] = 0]
           ELSE UNCHANGED <<pc, cur>>
    /\ UNCHANGED <<dropping, mutex, ACTIVE_FRAME, stack, ret>>

\* The drop is over and the client goes on.
DropReturn(t) ==
    /\ Ready(t)
    /\ pc[t] = "dropped"
    /\ pc' = [pc EXCEPT ![t] = "user"]
    /\ dropped' = [dropped EXCEPT ![t] = 0]
    /\ UNCHANGED <<dropping, frameVars, listVars, lockVars, TASK_SET, ACTIVE_FRAME, stack,
                   cur, dump, ret>>

\* taskdump_tree(wait_for_running_tasks) is called.
DumpStart(t, b) ==
    /\ Ready(t)
    /\ pc[t] = "user"
    /\ Cardinality({u \in Threads : pc[u] \in DumpPcs}) < MaxDumpers
    /\ pc' = [pc EXCEPT ![t] = "dstart"]
    /\ dump' = [dump EXCEPT ![t] = [NoDump EXCEPT !.block = b]]
    /\ UNCHANGED <<dropping, frameVars, listVars, lockVars, TASK_SET, ACTIVE_FRAME, stack,
                   cur, ret, dropped>>

\* Fault: an iterator that ends after the shard it is in.
no_later_shards(s) == {}

\* The shards after shard s that hold a task.
LaterShards(s) == {s2 \in Shards : s2 > s /\ \E f \in TASK_SET : shard_of(f) = s2}

\* tasks(): the iterator yields the next task of its shard, or moves on to the
\* next shard that holds one, or ends; itertools::join then returns the text.
DumpNext(t) ==
    /\ Ready(t)
    /\ pc[t] \in {"dstart", "dnext"}
    /\ LET d == dump[t] IN
        IF d.todo # {}
        THEN /\ dump' = [dump EXCEPT ![t] = [d EXCEPT !.task = Min(d.todo),
                                                       !.todo = d.todo \ {Min(d.todo)}]]
             /\ pc' = [pc EXCEPT ![t] = "dlock"]
             /\ UNCHANGED ret
        ELSE IF LaterShards(d.shard) # {}
        THEN LET s == Min(LaterShards(d.shard))
                 items == {f \in TASK_SET : shard_of(f) = s}
             IN  /\ dump' = [dump EXCEPT ![t] = [d EXCEPT !.shard = s,
                                                           !.task = Min(items),
                                                           !.todo = items \ {Min(items)}]]
                 /\ pc' = [pc EXCEPT ![t] = "dlock"]
                 /\ UNCHANGED ret
        ELSE /\ ret' = [ret EXCEPT ![t] = [NoRet EXCEPT !.call = "taskdump_tree",
                                                        !.done = TRUE, !.block = d.block,
                                                        !.out = d.out, !.seen = d.seen]]
             /\ dump' = [dump EXCEPT ![t] = NoDump]
             /\ pc' = [pc EXCEPT ![t] = "dreturn"]
    /\ UNCHANGED <<dropping, frameVars, listVars, lockVars, TASK_SET, ACTIVE_FRAME, stack,
                   cur, dropped>>

\* backtrace(): absent without an active frame, else its backtrace_locations.
Backtrace(t) ==
    /\ Ready(t)
    /\ pc[t] = "user"
    /\ ret' = [ret EXCEPT ![t] =
                  [NoRet EXCEPT !.call = "backtrace",
                                !.done = TRUE,
                                !.some = ACTIVE_FRAME[t] # 0,
                                !.bt = IF ACTIVE_FRAME[t] = 0 THEN <<>>
                                       ELSE backtrace_locations(ACTIVE_FRAME[t])]]
    /\ pc' = [pc EXCEPT ![t] = "dreturn"]
    /\ UNCHANGED <<dropping, frameVars, listVars, lockVars, TASK_SET, ACTIVE_FRAME, stack,
                   cur, dump, dropped>>

\* The client takes what taskdump_tree or backtrace returned and goes on.
DumpReturn(t) ==
    /\ Ready(t)
    /\ pc[t] = "dreturn"
    /\ pc' = [pc EXCEPT ![t] = "user"]
    /\ ret' = [ret EXCEPT ![t] = NoRet]
    /\ UNCHANGED <<dropping, frameVars, listVars, lockVars, TASK_SET, ACTIVE_FRAME, stack,
                   cur, dump, dropped>>

\* Task::pretty_tree up to subframes_locked: no lock inside the active task,
\* else lock() or try_lock(); a poisoned lock panics.
DumpLock(t) ==
    /\ Ready(t)
    /\ pc[t] = "dlock"
    /\ LET d == dump[t]
           task == d.task
       IN  IF ~NeedsLock(t, task)
           THEN /\ dump' = [dump EXCEPT ![t] = [d EXCEPT !.locked = locked_without_mutex]]
                /\ pc' = [pc EXCEPT ![t] = "dfmt"]
                /\ UNCHANGED mutex
           ELSE IF ~d.block /\ ~TryLocked(mutex[task])
           THEN /\ dump' = [dump EXCEPT ![t] = [d EXCEPT !.locked = "no"]]
                /\ pc' = [pc EXCEPT ![t] = "dfmt"]
                /\ UNCHANGED mutex
           ELSE /\ mutex[task] = 0
                /\ IF poisoned[task]
                   THEN /\ dump' = [dump EXCEPT ![t] = NoDump]
                        /\ pc' = [pc EXCEPT ![t] = "unwind"]
                        /\ UNCHANGED mutex
                   ELSE /\ dump' = [dump EXCEPT ![t] = [d EXCEPT !.locked = "yes",
                                                                 !.guard = TRUE]]
                        /\ pc' = [pc EXCEPT ![t] = "dfmt"]
                        /\ mutex' = [mutex EXCEPT ![task] = t]
    /\ UNCHANGED <<dropping, frameVars, listVars, poisoned, TASK_SET, ACTIVE_FRAME, stack,
                   cur, ret, dropped>>

\* Fault: a pretty_tree that returns without dropping its guard.
dump_render_keeps_guard(t) ==
    /\ Ready(t)
    /\ pc[t] = "dfmt"
    /\ LET d == dump[t]
           text == fmt(TheLists, d.task, d.locked = "yes")
       IN  dump' = [dump EXCEPT ![t] =
                       [d EXCEPT !.out = IF d.first THEN text
                                         ELSE d.out \o <<"\n">> \o text,
                                 !.first = FALSE, !.task = 0, !.locked = "none",
                                 !.guard = FALSE, !.raced = FALSE]]
    /\ pc' = [pc EXCEPT ![t] = "dnext"]
    /\ UNCHANGED <<dropping, frameVars, listVars, lockVars, TASK_SET, ACTIVE_FRAME, stack,
                   cur, ret, dropped>>

\* Task::pretty_tree from frame.fmt on: the text of the task is appended to the
\* dump (itertools::join), and the guard, if any, is dropped.
DumpRender(t) ==
    /\ Ready(t)
    /\ pc[t] = "dfmt"
    /\ LET d == dump[t]
           text == IF d.raced THEN <<"UNDEFINED">>
                   ELSE fmt(TheLists, d.task, d.locked = "yes")
           seen == IF d.locked = "yes" THEN Visited(TheLists, d.task, NTreeFrames)
                   ELSE {d.task}
       IN  /\ dump' = [dump EXCEPT ![t] =
                          [d EXCEPT !.out = IF d.first THEN text
                                            ELSE d.out \o <<"\n">> \o text,
                                    !.seen = d.seen \cup seen,
                                    !.first = FALSE,
                                    !.task = 0,
                                    !.locked = "none",
                                    !.guard = FALSE,
                                    !.raced = FALSE]]
           /\ IF d.guard
              THEN mutex' = [mutex EXCEPT ![d.task] = 0]
              ELSE UNCHANGED mutex
    /\ pc' = [pc EXCEPT ![t] = "dnext"]
    /\ UNCHANGED <<dropping, frameVars, listVars, poisoned, TASK_SET, ACTIVE_FRAME, stack,
                   cur, ret, dropped>>

Next ==
    \E t \in Threads :
        \/ Create(t)
        \/ \E f \in Frames : InScopeBegin(t, f)
        \/ InScopeLock(t)
        \/ InScopeActivate(t)
        \/ Exit(t)
        \/ Panic(t)
        \/ Unwind(t)
        \/ Catch(t)
        \/ Unlock(t)
        \/ \E f \in Frames : DropStart(t, f)
        \/ DropFrame(t)
        \/ DropReturn(t)
        \/ \E b \in BOOLEAN : DumpStart(t, b)
        \/ DumpNext(t)
        \/ DumpLock(t)
        \/ DumpRender(t)
        \/ DumpReturn(t)
        \/ Backtrace(t)

Spec == Init /\ [][Next]_vars

\* ---- futures polled from a drop

\* How many threads run in the specification with drop guards.
NGuardThreads == 1

\* Framed drops its field future before its field frame, and the drop of the
\* future drops what the future owns. One of those values is a guard whose
\* Drop runs code of the client (Defer in the tests): the drop of cur[t] waits,
\* with its frame and those of its owners still alive, while that code runs.
DeferBegin(t) ==
    /\ Ready(t)
    /\ pc[t] = "drop"
    /\ dropping[t] = 0
    /\ mem[cur[t]] = "live"
    /\ dropping' = [dropping EXCEPT ![t] = cur[t]]
    /\ cur' = [cur EXCEPT ![t] = 0]
    /\ pc' = [pc EXCEPT ![t] = "user"]
    /\ UNCHANGED <<frameVars, listVars, lockVars, TASK_SET, ACTIVE_FRAME, stack, dump,
                   ret, dropped>>

\* The guard's Drop returns and the drop that waited goes on.
DeferEnd(t) ==
    /\ Ready(t)
    /\ pc[t] = "user"
    /\ AtGuardLevel(t)
    /\ cur' = [cur EXCEPT ![t] = dropping[t]]
    /\ dropping' = [dropping EXCEPT ![t] = 0]
    /\ pc' = [pc EXCEPT ![t] = "drop"]
    /\ UNCHANGED <<frameVars, listVars, lockVars, TASK_SET, ACTIVE_FRAME, stack, dump,
                   ret, dropped>>

NextPollInDrop ==
    \E t \in 1..NGuardThreads :
        \/ Create(t)
        \/ \E f \in Frames : InScopeBegin(t, f)
        \/ InScopeLock(t)
        \/ InScopeActivate(t)
        \/ Exit(t)
        \/ Panic(t)
        \/ Unwind(t)
        \/ Catch(t)
        \/ Unlock(t)
        \/ \E f \in Frames : DropStart(t, f)
        \/ DropFrame(t)
        \/ DropReturn(t)
        \/ \E b \in BOOLEAN : DumpStart(t, b)
        \/ DumpNext(t)
        \/ DumpLock(t)
        \/ DumpRender(t)
        \/ DumpReturn(t)
        \/ Backtrace(t)
        \/ DeferBegin(t)
        \/ DeferEnd(t)

SpecPollInDrop == Init /\ [][NextPollInDrop]_vars

\* ---- a helper thread spawned and joined inside a poll

\* The threads that run the client's futures, and those that only serve as
\* helper threads.
Pollers == 1..NGuardThreads
Helpers == Threads \ Pollers

\* std::thread::spawn(|| taskdump_tree(b)) followed by join(), inside the poll
\* of a framed future: the helper u starts the dump and t waits for it.
Spawn(t, u, b) ==
    /\ Ready(t)
    /\ pc[t] = "user"
    /\ ACTIVE_FRAME[t] # 0
    /\ pc[u] = "user"
    /\ pc' = [pc EXCEPT ![t] = "join", ![u] = "dstart"]
    /\ dump' = [dump EXCEPT ![u] = [NoDump EXCEPT !.block = b]]
    /\ UNCHANGED <<frameVars, listVars, lockVars, TASK_SET, ACTIVE_FRAME, stack, cur,
                   ret, dropped, dropping>>

\* join() returns once the helper has ended, by a return or by a panic.
Join(t, u) ==
    /\ Ready(t)
    /\ pc[t] = "join"
    /\ pc[u] = "user"
    /\ pc' = [pc EXCEPT ![t] = "user"]
    /\ UNCHANGED <<frameVars, listVars, lockVars, TASK_SET, ACTIVE_FRAME, stack, cur,
                   dump, ret, dropped, dropping>>

\* What a helper thread does once it is started.
HelperStep(u) ==
    \/ DumpNext(u)
    \/ DumpLock(u)
    \/ DumpRender(u)
    \/ DumpReturn(u)
    \/ Catch(u)

NextJoin ==
    \/ \E t \in Pollers :
        \/ Create(t)
        \/ \E f \in Frames : InScopeBegin(t, f)
        \/ InScopeLock(t)
        \/ InScopeActivate(t)
        \/ Exit(t)
        \/ Panic(t)
        \/ Unwind(t)
        \/ Catch(t)
        \/ Unlock(t)
        \/ \E f \in Frames : DropStart(t, f)
        \/ DropFrame(t)
        \/ DropReturn(t)
        \/ \E b \in BOOLEAN : DumpStart(t, b)
        \/ DumpNext(t)
        \/ DumpLock(t)
        \/ DumpRender(t)
        \/ DumpReturn(t)
        \/ Backtrace(t)
        \/ \E u \in Helpers, b \in BOOLEAN : Spawn(t, u, b)
        \/ \E u \in Helpers : Join(t, u)
    \/ \E u \in Helpers : HelperStep(u)

\* A step of thread t from inside a call of the crate: t is at a place where
\* it asks nothing of the client and waits for nobody.
MidCallStep(t) == Urgent(t) /\ NextJoin /\ pc'[t] # pc[t]

\* The scheduler runs a helper thread that can take a step, and a polling
\* thread that is inside a call of the crate runs on to the end of the call.
\* A helper's step gives way while another thread is at a place of
\* PriorityPcs, so the helper is run if it can take a step again and again.
SpecJoin ==
    /\ Init /\ [][NextJoin]_vars
    /\ \A u \in Helpers : SF_vars(HelperStep(u))
    /\ \A t \in Pollers : WF_vars(MidCallStep(t))

\* ---- the rendering applied to task trees of every shape

\* The lists after the frames f..n were initialized in this order, each pushed
\* to the front of the children of its parent p[f].
RECURSIVE Pushed(_, _, _, _)
Pushed(L, p, f, n) ==
    IF f > n THEN L ELSE Pushed(push_front(L, p[f], f), p, f + 1, n)

NoLists == [head |-> [f \in TreeFrames |-> 0], tail |-> [f \in TreeFrames |-> 0],
            prev |-> [f \in TreeFrames |-> 0], next |-> [f \in TreeFrames |-> 0]]

\* A task of n frames that was polled once and is pending, with nobody polling
\* it now: frame 1 is its root, every other frame was initialized (in the order
\* of the addresses) as a child of an earlier one.
InitFmt ==
    \E n \in TreeFrames, p \in [TreeFrames -> 0..NTreeFrames],
       l \in [TreeFrames -> 1..NTreeLocs] :
        /\ \A f \in TreeFrames : p[f] = 0 <=> (f = 1 \/ f > n)
        /\ \A f \in TreeFrames : p[f] < f
        /\ \A f \in TreeFrames : f > n => l[f] = 1
        /\ mem = [f \in TreeFrames |-> IF f <= n THEN "live" ELSE "free"]
        /\ owner = p
        /\ location = l
        /\ kind = [f \in TreeFrames |-> IF f = 1 THEN "Root"
                                        ELSE IF f <= n THEN "Node"
                                        ELSE "Uninitialized"]
        /\ parent = p
        /\ head = Pushed(NoLists, p, 2, n).head
        /\ tail = Pushed(NoLists, p, 2, n).tail
        /\ prev = Pushed(NoLists, p, 2, n).prev
        /\ next = Pushed(NoLists, p, 2, n).next
        /\ mutex = [f \in TreeFrames |-> 0]
        /\ poisoned = [f \in TreeFrames |-> FALSE]
        /\ TASK_SET = {1}
        /\ ACTIVE_FRAME = [t \in Threads |-> 0]
        /\ stack = [t \in Threads |-> <<>>]
        /\ pc = [t \in Threads |-> "user"]
        /\ cur = [t \in Threads |-> 0]
        /\ dump = [t \in Threads |-> NoDump]
        /\ ret = [t \in Threads |-> NoRet]
        /\ dropped = [t \in Threads |-> 0]
        /\ dropping = [t \in Threads |-> 0]

\* The task is dumped, in either mode, again and again.
NextFmt ==
    \E t \in Threads :
        \/ \E b \in BOOLEAN : DumpStart(t, b)
        \/ DumpNext(t)
        \/ DumpLock(t)
        \/ DumpRender(t)
        \/ DumpReturn(t)

SpecFmt == InitFmt /\ [][NextFmt]_vars

\* ---- a task that is being polled

\* The frames from the root down to f under the parent map p.
RECURSIVE PathFrom(_, _)
PathFrom(p, f) == IF f = 0 THEN <<>> ELSE Append(PathFrom(p, p[f]), f)

\* A task of n frames as in InitFmt, which the first thread is polling again:
\* it went through in_scope of the root and of every frame on the way down to
\* frame a, which is its active frame, and holds the mutex of the root.
InitPolled ==
    \E n \in TreeFrames, p \in [TreeFrames -> 0..NTreeFrames],
       l \in [TreeFrames -> 1..NTreeLocs], a \in TreeFrames :
        /\ a <= n
        /\ \A f \in TreeFrames : p[f] = 0 <=> (f = 1 \/ f > n)
        /\ \A f \in TreeFrames : p[f] < f
        /\ \A f \in TreeFrames : f > n => l[f] = 1
        /\ mem = [f \in TreeFrames |-> IF f <= n THEN "live" ELSE "free"]
        /\ owner = p
        /\ location = l
        /\ kind = [f \in TreeFrames |-> IF f = 1 THEN "Root"
                                        ELSE IF f <= n THEN "Node"
                                        ELSE "Uninitialized"]
        /\ parent = p
        /\ head = Pushed(NoLists, p, 2, n).head
        /\ tail = Pushed(NoLists, p, 2, n).tail
        /\ prev = Pushed(NoLists, p, 2, n).prev
        /\ next = Pushed(NoLists, p, 2, n).next
        /\ mutex = [f \in TreeFrames |-> IF f = 1 THEN 1 ELSE 0]
        /\ poisoned = [f \in TreeFrames |-> FALSE]
        /\ TASK_SET = {1}
        /\ ACTIVE_FRAME = [t \in Threads |-> IF t = 1 THEN a ELSE 0]
        /\ stack = [t \in Threads |->
                       IF t # 1 THEN <<>>
                       ELSE [i \in 1..Len(PathFrom(p, a)) |->
                                [frame |-> PathFrom(p, a)[i],
                                 previously_active |->
                                     IF i = 1 THEN 0 ELSE PathFrom(p, a)[i - 1],
                                 guard |-> i = 1]]]
        /\ pc = [t \in Threads |-> "user"]
        /\ cur = [t \in Threads |-> 0]
        /\ dump = [t \in Threads |-> NoDump]
        /\ ret = [t \in Threads |-> NoRet]
        /\ dropped = [t \in Threads |-> 0]
        /\ dropping = [t \in Threads |-> 0]

\* The polling thread asks for its backtrace, and any thread for a dump.
NextPolled ==
    \E t \in Threads :
        \/ Backtrace(t)
        \/ \E b \in BOOLEAN : DumpStart(t, b)
        \/ DumpNext(t)
        \/ DumpLock(t)
        \/ DumpRender(t)
        \/ DumpReturn(t)

SpecPolled == InitPolled /\ [][NextPolled]_vars

\* ---- children that come and go while their parent is polled

\* Inside the poll of its active frame, thread t makes a framed future at the
\* lowest free address and polls it for the first time: the frame is
\* initialized as a child of the active frame, and the poll returns Pending.
ChildFirstPoll(t, f, l) ==
    /\ Ready(t)
    /\ pc[t] = "user"
    /\ ACTIVE_FRAME[t] # 0
    /\ mem[f] = "free"
    /\ \A g \in DOMAIN mem : mem[g] = "free" => f <= g
    /\ mem' = [mem EXCEPT ![f] = "live"]
    /\ owner' = [owner EXCEPT ![f] = ACTIVE_FRAME[t]]
    /\ location' = [location EXCEPT ![f] = l]
    /\ initialize_unchecked(t, f, ACTIVE_FRAME[t])
    /\ UNCHANGED <<ACTIVE_FRAME, stack, pc, cur, ret, dropped, dropping>>

\* Inside the poll of its active frame, thread t drops a future of that frame
\* which holds no future of its own.
ChildDrop(t, x) ==
    /\ Ready(t)
    /\ pc[t] = "user"
    /\ ACTIVE_FRAME[t] # 0
    /\ mem[x] = "live"
    /\ owner[x] = ACTIVE_FRAME[t]
    /\ \A y \in DOMAIN mem : mem[y] = "live" => owner[y] # x
    /\ FrameDrop(t, x)
    /\ Free(x)
    /\ dropped' = [dropped EXCEPT ![t] = 1]
    /\ pc' = [pc EXCEPT ![t] = "dropped"]
    /\ UNCHANGED <<mutex, ACTIVE_FRAME, stack, cur, ret, dropping>>

NextChildren ==
    \E t \in Threads :
        \/ \E f \in TreeFrames, l \in 1..NTreeLocs : ChildFirstPoll(t, f, l)
        \/ \E x \in TreeFrames : ChildDrop(t, x)
        \/ DropReturn(t)

\* A task that is being polled at one of its frames, under which futures are
\* made, polled and dropped.
SpecChildren == InitPolled /\ [][NextChildren]_vars

\* ---- dumps by several threads at once

\* taskdump_tree(wait_for_running_tasks) is called while as many threads as
\* DumpStart admits are inside taskdump_tree already.
DumpStartAlongside(t, b) ==
    /\ Ready(t)
    /\ pc[t] = "user"
    /\ Cardinality({u \in Threads : pc[u] \in DumpPcs}) >= MaxDumpers
    /\ pc' = [pc EXCEPT ![t] = "dstart"]
    /\ dump' = [dump EXCEPT ![t] = [NoDump EXCEPT !.block = b]]
    /\ UNCHANGED <<dropping, frameVars, listVars, lockVars, TASK_SET, ACTIVE_FRAME,
                   stack, cur, ret, dropped>>

\* Idle tasks are dumped, in either mode, by every thread, at any time.
NextDumps ==
    \E t \in Threads :
        \/ \E b \in BOOLEAN : DumpStart(t, b)
        \/ \E b \in BOOLEAN : DumpStartAlongside(t, b)
        \/ DumpNext(t)
        \/ DumpLock(t)
        \/ DumpRender(t)
        \/ DumpReturn(t)

SpecDumps == InitFmt /\ [][NextDumps]_vars

TypeOK ==
    /\ mem \in [Frames -> {"free", "live"}]
    /\ kind \in [Frames -> {"Uninitialized", "Root", "Node"}]
    /\ parent \in [Frames -> 0..NFrames]
    /\ mutex \in [Frames -> 0..NThreads]
    /\ TASK_SET \subseteq Frames
    /\ ACTIVE_FRAME \in [Threads -> 0..NFrames]

\* ---- the claims

\* Thread t is walking the children of the task r for a dump.
Traversing(t, r) == pc[t] = "dfmt" /\ dump[t].locked = "yes" /\ dump[t].task = r

\* The frames whose children list or sibling pointers this step writes.
Written == {f \in Frames : \/ head'[f] # head[f]
                           \/ tail'[f] # tail[f]
                           \/ prev'[f] # prev[f]
                           \/ next'[f] # next[f]}

AllFree == \A f \in Frames : mem[f] = "free"

C3_DropHoldsRootMutex ==
    [][\A x \in Frames :
        (mem[x] = "live" /\ kind[x] = "Node" /\ mem'[x] = "free")
            => \E t \in Threads : pc[t] = "drop" /\ mutex[root(x)] = t]_vars

\* C4: no step writes the children list or the sibling pointers of a frame of a
\* tree while another thread walks that tree for a dump.
C4_NoWriteDuringDump ==
    [][\A u \in Threads : \A r \in Frames :
        (Traversing(u, r) /\ pc'[u] = pc[u])
            => Written \cap Visited(TheLists, r, NFrames) = {}]_vars

C9_RegistryNamesLiveRoots ==
    \A f \in TASK_SET : mem[f] = "live" /\ kind[f] = "Root"

\* A task has just been dropped while another one stays registered.
C9_Witness ==
    \E t \in Threads :
        /\ pc[t] = "dropped" /\ dropped[t] >= 1 /\ ACTIVE_FRAME[t] = 0
        /\ TASK_SET # {}
        /\ \E f \in Frames : mem[f] = "free" /\ f < Min(TASK_SET)

\* C10: while a thread holds an item of tasks(), the Root frame the item names
\* is not dropped: its deregistration waits for the shard lock of the item.
C10_HeldItemStaysLive ==
    \A t \in Threads :
        pc[t] \in {"dlock", "dfmt"}
            => /\ mem[dump[t].task] = "live"
               /\ kind[dump[t].task] = "Root"
               /\ dump[t].task \in TASK_SET

\* The drop of a task has come to its root frame, whose item a dumper holds.
C10_Witness ==
    \E t \in Threads : \E u \in Threads \ {t} :
        /\ pc[t] \in {"dlock", "dfmt"}
        /\ pc[u] = "drop" /\ cur[u] = dump[t].task
        /\ DropLeaves(cur[u]) = {cur[u]}

\* The mutex thread t is waiting for, as the frame that holds it (0: none).
WaitsOn(t) ==
    IF pc[t] = "dlock" /\ dump[t].block /\ NeedsLock(t, dump[t].task) THEN dump[t].task
    ELSE IF pc[t] = "lock" /\ HasMutex(cur[t]) THEN cur[t]
    ELSE 0

Holder(t) == IF WaitsOn(t) = 0 THEN 0 ELSE mutex[WaitsOn(t)]

\* Thread u, or a thread that u waits for, waits for a mutex that t holds.
RECURSIVE WaitsFor(_, _, _)
WaitsFor(u, t, fuel) ==
    u # 0 /\ (u = t \/ (fuel > 0 /\ WaitsFor(Holder(u), t, fuel - 1)))

Deadlocked(t) == WaitsFor(Holder(t), t, NThreads)

\* Thread t is in taskdump_tree(true), called inside a framed future.
ReentrantDump(t) == pc[t] \in DumpPcs /\ dump[t].block /\ ACTIVE_FRAME[t] # 0

PollingText(task) ==
    <<">", " ", LocName(location[task]), "\n", " ", " ", "^", ".", " ", "[POLLING]">>

PolledByOther(t, task) == \E a \in Threads \ {t} : InStack(a, task)

\* C6: while another thread is inside the in_scope of a task, a
\* taskdump_tree(false) does not wait for the mutex of the task, and its text
\* for the task is the root line and one [POLLING] line, and no more.
C6_NonBlockingDumpOfPolledTask ==
    \A t \in Threads :
        (~dump[t].block /\ PolledByOther(t, dump[t].task))
            => /\ (pc[t] = "dlock" /\ Ready(t)) => ENABLED DumpLock(t)
               /\ pc[t] = "dfmt"
                      => /\ dump[t].locked = "no"
                         /\ fmt(TheLists, dump[t].task, dump[t].locked = "yes")
                                = PollingText(dump[t].task)

\* A non-blocking dump is about to render a polled task that has children.
C6_Witness ==
    \E t \in Threads :
        /\ pc[t] = "dfmt" /\ ~dump[t].block /\ dump[t].locked = "no"
        /\ PolledByOther(t, dump[t].task)
        /\ head[dump[t].task] # 0

\* C7: a taskdump_tree(true) that comes to a task another thread has polled
\* goes on, once that thread has left in_scope, to render the whole subtree of
\* the task: it takes the lock when no thread is inside and renders what is there.
C7_BlockingDumpRendersSubtree ==
    [][\A t \in Threads :
        /\ (pc[t] = "dlock" /\ dump[t].block /\ pc'[t] # "dlock")
               => /\ pc'[t] = "dfmt" /\ dump'[t].locked = "yes"
                  /\ ~PolledByOther(t, dump[t].task)
        /\ (pc[t] = "dfmt" /\ dump[t].block) => ~dump'[t].raced]_vars

\* No freed frame is in the task set, in a children list or behind a pointer.
NoDangling ==
    \A f \in Frames :
        mem[f] = "free"
            => /\ f \notin TASK_SET
               /\ \A g \in Frames :
                    /\ head[g] # f /\ tail[g] # f /\ prev[g] # f /\ next[g] # f
                    /\ \A i \in 1..Len(subframes(TheLists, g)) :
                           subframes(TheLists, g)[i] # f

\* C8: the drop of a frame with initialized children leaves no entry in the
\* task set and no frame in a children list; and when no frame is left, a
\* taskdump_tree(true) returns the empty text.
C8_DropLeavesNothing ==
    [][/\ NoDangling'
       /\ \A t \in Threads :
            (pc[t] = "dstart" /\ dump[t].block /\ AllFree /\ pc'[t] # "dstart")
                => pc'[t] = "dreturn" /\ ret'[t].out = <<>>]_vars

\* A task with two initialized children has just been dropped, and nothing is left.
C8_Witness ==
    \E t \in Threads : pc[t] = "dropped" /\ dropped[t] >= 3 /\ AllFree

\* The frame whose closure thread t runs innermost, below the call it is
\* leaving if it is leaving one (0: none).
Enclosing(t, n) == IF n = 0 THEN 0 ELSE stack[t][n].frame

\* C11: on every way out of an in_scope call (return or unwind) the active
\* frame of the thread is again what it was before the call and the root mutex
\* the call took is released: the calls on a thread's stack are undone last
\* in, first out, and a thread holds a root mutex only inside the call (or
\* the dump) that took it.
C11_InScopeRestores ==
    \A t \in Threads :
        LET n == Len(stack[t]) IN
        /\ \A i \in 1..n :
               stack[t][i].previously_active = Enclosing(t, i - 1)
        /\ ACTIVE_FRAME[t] = IF pc[t] \in {"unlock", "punlock"}
                             THEN Enclosing(t, n - 1) ELSE Enclosing(t, n)
        /\ \A r \in Frames :
               mutex[r] = t
                   => \/ InStack(t, r)
                      \/ pc[t] = "activate" /\ cur[t] = r
                      \/ pc[t] = "dfmt" /\ dump[t].task = r /\ dump[t].guard

\* A panic has left the in_scope of a root polled inside another task: its
\* mutex is free (and poisoned) and the outer frame is active again.
C11_Witness ==
    \E t \in Threads : \E r \in Frames :
        /\ pc[t] = "unwind" /\ Len(stack[t]) = 1
        /\ ACTIVE_FRAME[t] = stack[t][1].frame
        /\ kind[r] = "Root" /\ poisoned[r] /\ mutex[r] = 0 /\ r # ACTIVE_FRAME[t]

\* C12: the active frame of a thread is null, or a live frame whose in_scope
\* closure is running on that thread.
C12_ActiveFrameIsRunning ==
    \A t \in Threads :
        ACTIVE_FRAME[t] # 0
            => mem[ACTIVE_FRAME[t]] = "live" /\ InStack(t, ACTIVE_FRAME[t])

\* An inner call is being left: the outer frame is active again while the
\* inner one is still on the stack, and the other thread is inside a task too.
C12_Witness ==
    \E t \in Threads : \E u \in Threads \ {t} :
        /\ pc[t] = "unlock" /\ Len(stack[t]) = 2
        /\ ACTIVE_FRAME[t] = stack[t][1].frame
        /\ ACTIVE_FRAME[u] # 0

Initialized(f) == mem[f] = "live" /\ ~is_uninitialized(f)

\* The members of the children list of g.
ChildrenOf(g) == {subframes(TheLists, g)[i] : i \in 1..Len(subframes(TheLists, g))}

\* The live frames that have f in their children list.
ListsHolding(f) == {g \in Frames : mem[g] = "live" /\ f \in ChildrenOf(g)}

\* g is a proper ancestor of f, within fuel steps of Frame::parent.
RECURSIVE Reaches(_, _, _)
Reaches(f, g, fuel) ==
    /\ fuel > 0
    /\ Parent(f) # 0
    /\ (Parent(f) = g \/ Reaches(Parent(f), g, fuel - 1))

\* C13: the initialized frames form a forest under parent and children (no
\* frame is its own ancestor, a frame is in the children list of at most one
\* frame, and that frame is its parent), and an initialized frame is a Root
\* iff it has a mutex iff it has no parent.
C13_Forest ==
    \A f \in Frames :
        Initialized(f)
            => /\ ~Reaches(f, f, NFrames)
               /\ Cardinality(ListsHolding(f)) <= 1
               /\ \A g \in ListsHolding(f) : Parent(f) = g
               /\ kind[f] = "Root" <=> HasMutex(f)
               /\ kind[f] = "Root" <=> parent[f] = 0
               /\ kind[f] = "Root" <=> Parent(f) = 0

\* Two trees at once, one of them with a child.
C13_Witness ==
    \E r \in Frames : \E q \in Frames \ {r} :
        /\ Initialized(r) /\ kind[r] = "Root" /\ Cardinality(ChildrenOf(r)) = 1
        /\ Initialized(q) /\ kind[q] = "Root"

C16_FirstPollInitializes ==
    [][\A t \in Threads : \A f \in Frames :
        (is_uninitialized(f) /\ mem[f] = "live" /\ pc'[t] = "lock" /\ cur'[t] = f
            /\ pc[t] # "lock")
            => IF ACTIVE_FRAME[t] # 0
               THEN /\ kind'[f] = "Node" /\ parent'[f] = ACTIVE_FRAME[t]
                    /\ IterFrom(TheLists', head'[ACTIVE_FRAME[t]], NFrames)
                           = <<f>> \o subframes(TheLists, ACTIVE_FRAME[t])
                    /\ TASK_SET' = TASK_SET
               ELSE /\ kind'[f] = "Root" /\ mutex'[f] = 0 /\ ~poisoned'[f]
                    /\ TASK_SET' = TASK_SET \cup {f} /\ f \notin TASK_SET
                    /\ TheLists' = TheLists
                    /\ \A g \in Frames : f \notin ChildrenOf(g)]_vars

\* A second child has just been initialized inside a task, while a dumper
\* waits for the mutex of that task.
C16_Witness ==
    \E t \in Threads :
        /\ pc[t] = "lock" /\ kind[cur[t]] = "Node"
        /\ subframes(TheLists, ACTIVE_FRAME[t])[1] = cur[t]
        /\ Len(subframes(TheLists, ACTIVE_FRAME[t])) = 2
        /\ \E u \in Threads \ {t} :
               pc[u] = "dlock" /\ dump[u].task = root(cur[t])

\* The frames from r down to f through the children lists (empty: f is not
\* below r).
RECURSIVE Down(_, _, _)
Down(r, f, fuel) ==
    IF r = f THEN <<r>>
    ELSE IF fuel = 0 THEN <<>>
    ELSE LET via == {c \in ChildrenOf(r) : Down(c, f, fuel - 1) # <<>>}
         IN  IF via = {} THEN <<>>
             ELSE <<r>> \o Down(CHOOSE c \in via : TRUE, f, fuel - 1)

Reverse(s) == [i \in 1..Len(s) |-> s[Len(s) + 1 - i]]

\* The chain from f up to its task, found from the task set downwards.
ForestChain(f) ==
    LET tasks == {r \in TASK_SET : Down(r, f, NFrames) # <<>>}
    IN  IF tasks = {} THEN <<>>
        ELSE Reverse(Down(CHOOSE r \in tasks : TRUE, f, NFrames))

RECURSIVE Shape(_)
Shape(f) ==
    [loc |-> location[f],
     subs |-> [i \in 1..Len(subframes(TheLists, f)) |->
                  Shape(subframes(TheLists, f)[i])]]

Max(S) == CHOOSE x \in S : \A y \in S : x >= y

\* The last index of the maximal run of equal-looking siblings that starts at i.
RunEnd(subs, i) ==
    Max({j \in i..Len(subs) : \A k \in i..j : Shape(subs[k]) = Shape(subs[i])})

\* The lines below frame f, top to bottom: one per maximal run of equal-looking
\* siblings, with the size of the run when it is more than one, each followed
\* by the lines below one member of the run.
RECURSIVE LinesBelow(_)
RECURSIVE LinesFrom(_, _)
LinesFrom(subs, i) ==
    IF i > Len(subs) THEN <<>>
    ELSE LET j == RunEnd(subs, i)
             n == j - i + 1
         IN  <<[n |-> IF n > 1 THEN ToString(n) ELSE "",
                loc |-> LocName(location[subs[i]])]>>
             \o LinesBelow(subs[i]) \o LinesFrom(subs, j + 1)

LinesBelow(f) == LinesFrom(subframes(TheLists, f), 1)

\* A text cut into its lines.
RECURSIVE SplitLines(_, _, _)
SplitLines(text, i, acc) ==
    IF i > Len(text) THEN <<acc>>
    ELSE IF text[i] = "\n" THEN <<acc>> \o SplitLines(text, i + 1, <<>>)
    ELSE SplitLines(text, i + 1, Append(acc, text[i]))

\* The count a line is prefixed with ("" when it has none) and its location.
LineRead(line) ==
    [n |-> IF \E i \in 2..Len(line) : line[i] = "x"
           THEN line[(CHOOSE i \in 2..Len(line) : line[i] = "x") - 1]
           ELSE "",
     loc |-> line[Len(line)]]

TextRead(text) ==
    [i \in 1..Len(SplitLines(text, 1, <<>>)) |-> LineRead(SplitLines(text, 1, <<>>)[i])]

\* C18: in the dump of a task, every maximal run of N consecutive siblings that
\* are deep-equal is one line, prefixed with "Nx " when N > 1 and with nothing
\* when N = 1.
C18_RunsAreOneLine ==
    \A t \in Threads :
        (pc[t] = "dreturn" /\ ret[t].call = "taskdump_tree" /\ TASK_SET = {1})
            => TextRead(ret[t].out) =
                   <<[n |-> "", loc |-> LocName(location[1])]>> \o LinesBelow(1)

\* A dump has returned the text of a task in which two equal siblings are
\* followed by a sibling of the same location with different children.
C18_Witness ==
    \E t \in Threads, f \in TreeFrames :
        /\ pc[t] = "dreturn" /\ ret[t].call = "taskdump_tree"
        /\ LET subs == subframes(TheLists, f)
           IN  /\ Len(subs) = 3
               /\ Shape(subs[1]) = Shape(subs[2])
               /\ location[subs[3]] = location[subs[1]]
               /\ Shape(subs[3]) # Shape(subs[1])

\* ---- C19: poisoned root mutexes

\* An in_scope of thread t that asks for a poisoned root mutex which is free
\* gets it and goes on to activate the frame.
PoisonedInScopeProceeds ==
    [][\A t \in Threads :
        (pc[t] = "lock" /\ HasMutex(cur[t]) /\ poisoned[cur[t]] /\ pc'[t] # "lock")
            => pc'[t] = "activate" /\ mutex'[cur[t]] = t]_vars

\* C19: an acquisition that finds the root mutex poisoned counts as a
\* successful one: a later in_scope on that root goes on to run its closure,
\* and a later dump of that task, blocking or non-blocking, goes on to render
\* the task instead of failing.
C19_PoisonIsSuccess ==
    [][\A t \in Threads :
        /\ (pc[t] = "lock" /\ HasMutex(cur[t]) /\ poisoned[cur[t]] /\ pc'[t] # "lock")
               => pc'[t] = "activate" /\ mutex'[cur[t]] = t
        /\ (pc[t] = "dlock" /\ poisoned[dump[t].task] /\ pc'[t] # "dlock")
               => pc'[t] = "dfmt"]_vars

\* An in_scope has taken a poisoned root mutex and is about to activate.
C19_PoisonedInScopeWitness ==
    \E t \in Threads :
        pc[t] = "activate" /\ HasMutex(cur[t]) /\ poisoned[cur[t]] /\ mutex[cur[t]] = t

\* ---- C20: a future first polled from a drop

\* Thread t polls frame f for the first time in this step.
FirstPoll(t, f) ==
    /\ is_uninitialized(f) /\ mem[f] = "live"
    /\ pc[t] # "lock" /\ pc'[t] = "lock" /\ cur'[t] = f

\* The text of a task whose root p has the single child c, a leaf.
ParentAndChild(p, c) ==
    <<">", " ", LocName(location[p]), "\n",
      " ", " ", "^", ">", " ", LocName(location[c])>>

\* The last n tokens of a text.
Suffix(text, n) == SubSeq(text, Len(text) - n + 1, Len(text))

\* C20 as stated: a framed future that the code of a drop guard polls for the
\* first time while a framed future that was polled before is being dropped
\* becomes a Node whose parent is the future being dropped (or one below
\* it), and not a task.
C20_PolledInDropIsChildOfDropped ==
    [][\A t \in Threads : \A f \in Frames :
        (FirstPoll(t, f) /\ AtGuardLevel(t) /\ ~is_uninitialized(dropping[t]))
            => /\ kind'[f] = "Node"
               /\ parent'[f] # 0 /\ InSubtree(parent'[f], dropping[t], NFrames)
               /\ f \notin TASK_SET']_vars

\* C20, amended: a framed future first polled by the code of a drop becomes a
\* Node child of the frame that is active where the drop runs (the future in
\* whose poll the value is dropped), and a separate Root task when no frame is
\* active there; a dump taken inside a future that is the only child of a root
\* shows it right below that root; and no step, the drops of both included,
\* leaves a freed frame in the task set or in a list.
C20_PolledInDropIsChildOfActive ==
    [][/\ NoDangling'
       /\ \A t \in Threads : \A f \in Frames :
            FirstPoll(t, f)
                => IF ACTIVE_FRAME[t] # 0
                   THEN /\ kind'[f] = "Node" /\ parent'[f] = ACTIVE_FRAME[t]
                        /\ head'[ACTIVE_FRAME[t]] = f
                        /\ f \notin TASK_SET'
                   ELSE /\ kind'[f] = "Root" /\ f \in TASK_SET'
       /\ \A t \in Threads :
            LET c == ACTIVE_FRAME[t]
                p == dump[t].task
            IN  (/\ pc[t] = "dfmt" /\ pc'[t] # "dfmt"
                 /\ c # 0 /\ kind[c] = "Node" /\ parent[c] = p
                 /\ subframes(TheLists, p) = <<c>> /\ head[c] = 0)
                    => /\ Len(dump'[t].out) >= 10
                       /\ Suffix(dump'[t].out, 10) = ParentAndChild(p, c)
                       /\ Len(dump'[t].out) > 10
                             => dump'[t].out[Len(dump'[t].out) - 10] = "\n"]_vars

\* While the drop of a framed future waits for a drop guard, a dump taken
\* inside a future that the guard polled first has shown that future as the
\* only child of the frame that is active where the drop runs.
C20_Witness ==
    \E t \in Threads :
        /\ dropping[t] # 0 /\ pc[t] = "dreturn" /\ ret[t].call = "taskdump_tree"
        /\ ACTIVE_FRAME[t] # 0 /\ kind[ACTIVE_FRAME[t]] = "Node"
        /\ parent[ACTIVE_FRAME[t]] = owner[dropping[t]]
        /\ ret[t].out = ParentAndChild(parent[ACTIVE_FRAME[t]], ACTIVE_FRAME[t])

\* ---- C21: a dump by a helper thread that the polling thread joins

\* A helper's taskdump_tree(false) that meets no poisoned mutex returns.
HelperDumpReturns ==
    \A u \in Helpers :
        (pc[u] \in DumpPcs /\ ~dump[u].block /\ \A f \in Frames : ~poisoned[f])
            ~> (pc[u] = "dreturn")

\* C21: a taskdump_tree(false) of a helper thread, which a framed future has
\* spawned and waits to join inside its own poll, comes to an end (the two
\* threads do not wait for each other for ever), and what it renders for the
\* task of that future is the root line and one [POLLING] line.
C21_HelperDumpTerminates ==
    /\ [](\A t \in Pollers : \A u \in Helpers :
            (/\ pc[t] = "join" /\ pc[u] = "dfmt" /\ ~dump[u].block
             /\ dump[u].task = root(ACTIVE_FRAME[t]))
                => /\ dump[u].locked = "no"
                   /\ fmt(TheLists, dump[u].task, dump[u].locked = "yes")
                          = PollingText(dump[u].task))
    /\ \A u \in Helpers :
            (pc[u] \in DumpPcs /\ ~dump[u].block) ~> (pc[u] \notin DumpPcs)

\* The helper's non-blocking dump has returned the root line and [POLLING]
\* for the task whose sub-future spawned it and still waits to join it.
C21_Witness ==
    \E t \in Pollers, u \in Helpers :
        /\ pc[t] = "join" /\ pc[u] = "dreturn" /\ ~ret[u].block
        /\ kind[ACTIVE_FRAME[t]] = "Node"
        /\ ret[u].out = PollingText(root(ACTIVE_FRAME[t]))

\* ---- C22: when a non-blocking dump writes [POLLING]

\* Some thread is inside the in_scope of the root frame of task r (it holds
\* the mutex of r from activate until the mutex guard is dropped).
BeingPolled(r) ==
    \E a \in Threads : InStack(a, r) \/ (pc[a] = "activate" /\ cur[a] = r)

\* C22: a taskdump_tree(false) that comes to a task (whose mutex is not
\* poisoned) renders it as the root line and [POLLING] only when some thread
\* is inside the in_scope of its root at that time, and renders an idle task
\* with its subtree.
C22_PollingOnlyIfPolled ==
    [][\A t \in Threads :
        (/\ pc[t] = "dlock" /\ pc'[t] # "dlock" /\ ~dump[t].block
         /\ ~poisoned[dump[t].task])
            => /\ pc'[t] = "dfmt"
               /\ dump'[t].locked = "no" => BeingPolled(dump[t].task)
               /\ ~BeingPolled(dump[t].task) => dump'[t].locked = "yes"]_vars

\* ---- C23: which mutexes a dump asks for

\* C23: when a dump comes to the task that is the root of the caller's active
\* frame it does not ask for the mutex of that task, in either mode: it goes
\* on whoever holds the mutex, holds no guard, leaves the mutex as it is, and
\* renders the subtree of the task. For every other task it asks: it takes a
\* free mutex (or panics when that is poisoned), and when the mutex is held it
\* waits (blocking) or renders without the subtree (non-blocking).
C23_OwnTaskNotLocked ==
    /\ [](\A t \in Threads :
            (pc[t] = "dlock" /\ Ready(t))
                => IF dump[t].task = current_task(t)
                   THEN ENABLED DumpLock(t)
                   ELSE (dump[t].block /\ mutex[dump[t].task] # 0)
                            => ~ENABLED DumpLock(t))
    /\ [][\A t \in Threads :
            LET task == dump[t].task IN
            /\ (pc[t] = "dlock" /\ pc'[t] # "dlock")
                   => IF task = current_task(t)
                      THEN /\ pc'[t] = "dfmt" /\ dump'[t].locked = "yes"
                           /\ ~dump'[t].guard /\ mutex' = mutex
                      ELSE IF mutex[task] # 0
                      THEN /\ ~dump[t].block /\ mutex' = mutex
                           /\ pc'[t] = "dfmt" /\ dump'[t].locked = "no"
                      ELSE IF poisoned[task]
                      THEN pc'[t] = "unwind" /\ mutex' = mutex
                      ELSE /\ pc'[t] = "dfmt" /\ dump'[t].locked = "yes"
                           /\ dump'[t].guard /\ mutex'[task] = t
            /\ (pc[t] = "dfmt" /\ pc'[t] # "dfmt" /\ task = current_task(t))
                   => /\ ~dump[t].raced
                      /\ Len(dump'[t].out) >= Len(fmt(TheLists, task, TRUE))
                      /\ Suffix(dump'[t].out, Len(fmt(TheLists, task, TRUE)))
                             = fmt(TheLists, task, TRUE)
                      /\ Visited(TheLists, task, NFrames) \subseteq dump'[t].seen]_vars

\* A dump called inside a sub-frame is about to render the caller's own task,
\* without a guard while the caller holds the mutex, after it has rendered
\* another task.
C23_Witness ==
    \E t \in Threads :
        /\ pc[t] = "dfmt" /\ dump[t].task = current_task(t)
        /\ kind[ACTIVE_FRAME[t]] = "Node"
        /\ ~dump[t].guard /\ mutex[dump[t].task] = t
        /\ \E r \in TASK_SET \ {dump[t].task} : r \in dump[t].seen

\* ---- C24: the text of a dump of several tasks

\* The orders in which the tasks of a set can be visited, each task once.
Orders(S) ==
    {p \in [1..Cardinality(S) -> S] :
        \A i, j \in 1..Cardinality(S) : p[i] = p[j] => i = j}

\* The texts of a sequence, from the i-th on, with one newline between two.
RECURSIVE JoinFrom(_, _)
JoinFrom(texts, i) ==
    IF i > Len(texts) THEN <<>>
    ELSE IF i = Len(texts) THEN texts[i]
    ELSE texts[i] \o <<"\n">> \o JoinFrom(texts, i + 1)

\* What a dump of thread t has to render for task r as things stand: the
\* subtree, unless another holder of the mutex keeps the dump out.
Rendering(t, r) == fmt(TheLists, r, r = current_task(t) \/ mutex[r] = 0)

\* C24: the text taskdump_tree returns is made of the renderings of the tasks
\* its iterator yields, each task once and no other text, with one newline
\* between two renderings; with no task registered it is the empty text. Step
\* by step: the text is empty when the call begins; the iterator yields
\* registered tasks of one shard after another, never one again, and ends only
\* when no shard after its own holds a task; only a render step changes the
\* text, by appending the rendering of the task just yielded, after a newline
\* unless it is the first; and the text at the end is what is returned.
C24_DumpIsJoinOfTasks ==
    [][\A t \in Threads :
        /\ (pc[t] # "dstart" /\ pc'[t] = "dstart")
               => dump'[t].out = <<>> /\ dump'[t].first /\ dump'[t].todo = {}
                  /\ dump'[t].shard = 0
        /\ (pc[t] \in {"dstart", "dnext"} /\ pc'[t] = "dlock")
               => /\ dump'[t].task \in TASK_SET
                  /\ shard_of(dump'[t].task) = dump'[t].shard
                  /\ dump'[t].task \notin dump'[t].todo
                  /\ dump'[t].todo \subseteq
                        {r \in TASK_SET : shard_of(r) = dump'[t].shard}
                  /\ \/ /\ dump'[t].shard = dump[t].shard
                        /\ dump'[t].task \in dump[t].todo
                        /\ dump'[t].todo = dump[t].todo \ {dump'[t].task}
                     \/ /\ dump'[t].shard > dump[t].shard
                        /\ dump[t].todo = {}
                        /\ dump'[t].todo \cup {dump'[t].task}
                              = {r \in TASK_SET : shard_of(r) = dump'[t].shard}
                        /\ \A r \in TASK_SET :
                              shard_of(r) > dump[t].shard
                                  => shard_of(r) >= dump'[t].shard
                  /\ dump'[t].out = dump[t].out /\ dump'[t].first = dump[t].first
        /\ (pc[t] = "dlock" /\ pc'[t] = "dfmt")
               => dump'[t].out = dump[t].out /\ dump'[t].first = dump[t].first
                  /\ dump'[t].task = dump[t].task /\ dump'[t].todo = dump[t].todo
                  /\ dump'[t].shard = dump[t].shard
        /\ (pc[t] = "dfmt" /\ pc'[t] # "dfmt")
               => /\ \E b \in BOOLEAN :
                        LET text == IF dump[t].raced THEN <<"UNDEFINED">>
                                    ELSE fmt(TheLists, dump[t].task, b)
                        IN  dump'[t].out =
                                IF dump[t].first THEN text
                                ELSE dump[t].out \o <<"\n">> \o text
                  /\ ~dump'[t].first
                  /\ dump'[t].todo = dump[t].todo /\ dump'[t].shard = dump[t].shard
        /\ (pc[t] \in {"dstart", "dnext"} /\ pc'[t] = "dreturn")
               => /\ ret'[t].out = dump[t].out
                  /\ dump[t].todo = {}
                  /\ \A r \in TASK_SET : shard_of(r) <= dump[t].shard
                  /\ (TASK_SET = {} /\ pc[t] = "dstart") => ret'[t].out = <<>>
        /\ (pc[t] \in DumpPcs /\ pc'[t] = pc[t])
               => dump'[t].out = dump[t].out /\ dump'[t].first = dump[t].first
                  /\ dump'[t].todo = dump[t].todo /\ dump'[t].shard = dump[t].shard]_vars

\* A helper's dump has returned the text of two tasks: the one that waits to
\* join it, and an idle one that has a child.
C24_Witness ==
    \E u \in Helpers :
        /\ pc[u] = "dreturn" /\ ret[u].call = "taskdump_tree"
        /\ Cardinality(TASK_SET) = 2
        /\ \E r \in TASK_SET : mutex[r] # 0
        /\ \E r \in TASK_SET : mutex[r] = 0 /\ head[r] # 0
        /\ \E p \in Orders(TASK_SET) :
               ret[u].out = JoinFrom([i \in 1..Len(p) |-> Rendering(u, p[i])], 1)

\* With no task registered, a dump has returned the empty text.
EmptyDumpReturned ==
    \E t \in Threads :
        pc[t] = "dreturn" /\ ret[t].call = "taskdump_tree" /\ TASK_SET = {}
            /\ ret[t].out = <<>>

\* ---- C25: indentation

\* The depths of the lines below frame f, top to bottom, f being at depth d.
RECURSIVE DepthsBelow(_, _)
RECURSIVE DepthsFrom(_, _, _)
DepthsFrom(subs, i, d) ==
    IF i > Len(subs) THEN <<>>
    ELSE <<d + 1>> \o DepthsBelow(subs[i], d + 1)
                  \o DepthsFrom(subs, RunEnd(subs, i) + 1, d)

DepthsBelow(f, d) == DepthsFrom(subframes(TheLists, f), 1, d)

\* The column at which the branching glyph of a line stands (the first column
\* is 0); the line of a root starts with its glyph.
GlyphColumn(line) ==
    (CHOOSE i \in 1..Len(line) :
        /\ line[i] \in {"^", "+", ">"}
        /\ \A j \in 1..(i - 1) : line[j] \notin {"^", "+", ">"}) - 1

TextColumns(text) ==
    [i \in 1..Len(SplitLines(text, 1, <<>>)) |->
        GlyphColumn(SplitLines(text, 1, <<>>)[i])]

\* C25 as stated: in the text of a task the glyph of the line of a frame at
\* depth d below the root stands at column 2 * d.
C25_TwoColumnsPerLevel ==
    \A t \in Threads :
        (pc[t] = "dreturn" /\ ret[t].call = "taskdump_tree" /\ TASK_SET = {1})
            => TextColumns(ret[t].out) =
                   [i \in 1..Len(<<0>> \o DepthsBelow(1, 0)) |->
                       2 * (<<0>> \o DepthsBelow(1, 0))[i]]

\* C25, amended: the glyph of the root stands at column 0, that of a child of
\* the root at column 2, and each further level adds three columns: column
\* 3 * d - 1 at depth d >= 1.
C25_ThreeColumnsPerLevel ==
    \A t \in Threads :
        (pc[t] = "dreturn" /\ ret[t].call = "taskdump_tree" /\ TASK_SET = {1})
            => TextColumns(ret[t].out) =
                   [i \in 1..Len(<<0>> \o DepthsBelow(1, 0)) |->
                       LET d == (<<0>> \o DepthsBelow(1, 0))[i]
                       IN  IF d = 0 THEN 0 ELSE 3 * d - 1]

\* A dump has returned the text of a task that has a frame at depth 3 and a
\* frame with two children that look different.
C25_Witness ==
    \E t \in Threads :
        /\ pc[t] = "dreturn" /\ ret[t].call = "taskdump_tree"
        /\ \E f \in TreeFrames :
               parent[f] # 0 /\ parent[parent[f]] # 0 /\ parent[parent[parent[f]]] # 0
        /\ \E f \in TreeFrames :
               /\ Len(subframes(TheLists, f)) = 2
               /\ Shape(subframes(TheLists, f)[1]) # Shape(subframes(TheLists, f)[2])

\* ---- C26: the drop of a frame that was never polled

\* C26: the drop of a frame that is Uninitialized changes nothing: the task
\* set, every children list and sibling pointer, every mutex and every
\* thread's active frame are after it what they were before, no dump is
\* disturbed, and the drop waits for no lock of the task set.
C26_UninitializedDropIsNoOp ==
    /\ [](\A t \in Threads :
            (/\ pc[t] = "drop" /\ Ready(t)
             /\ \E x \in DropLeaves(cur[t]) : kind[x] = "Uninitialized")
                => ENABLED DropFrame(t))
    /\ [][\A x \in Frames :
            (mem[x] = "live" /\ mem'[x] = "free" /\ kind[x] = "Uninitialized")
                => /\ TASK_SET' = TASK_SET
                   /\ TheLists' = TheLists
                   /\ mutex' = mutex /\ poisoned' = poisoned
                   /\ ACTIVE_FRAME' = ACTIVE_FRAME
                   /\ dump' = dump]_vars

\* A future that was never polled has been dropped inside a task, while
\* another thread is in the middle of a dump.
C26_Witness ==
    \E t \in Threads, u \in Threads :
        /\ pc[t] = "dropped" /\ dropped[t] = 0 /\ ACTIVE_FRAME[t] # 0
        /\ pc[u] \in {"dlock", "dfmt"}

\* ---- C27: a dump from inside a task and a dump from outside

\* What the tree of task r alone determines of its text: for every line its
\* count, its location and the column of its glyph.
TreeLines(r) == <<[n |-> "", loc |-> LocName(location[r])]>> \o LinesBelow(r)

TreeColumns(r) ==
    [i \in 1..Len(<<0>> \o DepthsBelow(r, 0)) |->
        LET d == (<<0>> \o DepthsBelow(r, 0))[i] IN IF d = 0 THEN 0 ELSE 3 * d - 1]

\* C27: a taskdump_tree(true) renders a task from the tree of the task alone,
\* and the same way whether it is called inside the task and skips the lock
\* or is called elsewhere and takes the lock: in both cases the text is the
\* fmt of the tree with its children, whose lines are those the tree
\* determines and none about polling.
C27_ReentrantEqualsExternal ==
    [][\A t \in Threads :
        LET task == dump[t].task
            piece == IF dump[t].first THEN dump'[t].out
                     ELSE SubSeq(dump'[t].out, Len(dump[t].out) + 2, Len(dump'[t].out))
        IN  (/\ pc[t] = "dfmt" /\ pc'[t] # "dfmt" /\ dump[t].block /\ ~dump[t].raced
             /\ task = current_task(t) \/ dump[t].guard)
                => /\ piece = fmt(TheLists, task, TRUE)
                   /\ TextRead(piece) = TreeLines(task)
                   /\ TextColumns(piece) = TreeColumns(task)]_vars

\* A taskdump_tree(true) called inside a task has returned the text of that
\* task, for which it skipped the lock, and of an idle task, for which it
\* took the lock, both with their children; one of them has a child.
C27_Witness ==
    \E t \in Threads :
        /\ pc[t] = "dreturn" /\ ret[t].call = "taskdump_tree" /\ ret[t].block
        /\ ACTIVE_FRAME[t] # 0 /\ Cardinality(TASK_SET) = 2
        /\ \E r \in TASK_SET : head[r] # 0
        /\ \E p \in Orders(TASK_SET) :
               ret[t].out = JoinFrom([i \in 1..Len(p) |-> fmt(TheLists, p[i], TRUE)], 1)

\* ---- C28: the order of the steps of in_scope

\* The steps of an in_scope call of thread t after the first two: the closure
\* runs, then the prior active frame is restored with the mutex still held,
\* then the mutex is released with the active frame left alone; on a return
\* and on a panic alike.
ExitOrder(t) ==
    /\ (pc[t] \in {"user", "unwind"} /\ pc'[t] \in {"unlock", "punlock"})
           => /\ ACTIVE_FRAME[t] = Top(t).frame
              /\ ACTIVE_FRAME'[t] = Top(t).previously_active
              /\ mutex' = mutex /\ stack' = stack
              /\ Top(t).guard => mutex[Top(t).frame] = t
    /\ (pc[t] \in {"unlock", "punlock"} /\ pc'[t] \notin {"unlock", "punlock"})
           => /\ ACTIVE_FRAME' = ACTIVE_FRAME
              /\ Top(t).guard <=> HasMutex(Top(t).frame)
              /\ Top(t).guard => mutex[Top(t).frame] = t /\ mutex'[Top(t).frame] = 0
              /\ ~Top(t).guard => mutex' = mutex
              /\ Len(stack'[t]) = Len(stack[t]) - 1

\* C28 as stated: in_scope first saves the prior active frame and makes its
\* frame the active one, then takes the mutex of a root frame, then runs the
\* closure, then restores the prior active frame, then releases the mutex.
C28_ActiveThenLock ==
    [][\A t \in Threads :
        /\ (pc[t] = "lock" /\ pc'[t] # "lock" /\ HasMutex(cur[t]))
               => ACTIVE_FRAME[t] = cur[t] /\ mutex'[cur[t]] = t
        /\ ExitOrder(t)]_vars

\* C28, amended: in_scope first takes the mutex of a root frame, with the
\* active frame still the prior one; then it saves the prior active frame and
\* makes its frame the active one, with the mutex held; then the closure runs;
\* then the prior active frame is restored; then the mutex is released.
C28_LockThenActive ==
    [][\A t \in Threads :
        /\ (pc[t] = "lock" /\ pc'[t] # "lock")
               => /\ pc'[t] = "activate"
                  /\ ACTIVE_FRAME' = ACTIVE_FRAME /\ ACTIVE_FRAME[t] # cur[t]
                  /\ stack' = stack
                  /\ IF HasMutex(cur[t])
                     THEN mutex[cur[t]] = 0 /\ mutex'[cur[t]] = t
                     ELSE mutex' = mutex
        /\ (pc[t] = "activate" /\ pc'[t] # "activate")
               => /\ pc'[t] = "user"
                  /\ ACTIVE_FRAME'[t] = cur[t]
                  /\ stack'[t] = Append(stack[t],
                                        [frame |-> cur[t],
                                         previously_active |-> ACTIVE_FRAME[t],
                                         guard |-> HasMutex(cur[t])])
                  /\ mutex' = mutex
                  /\ HasMutex(cur[t]) => mutex[cur[t]] = t
        /\ ExitOrder(t)]_vars

\* A panic unwinds out of an in_scope on a root frame that was called inside
\* another task: the prior active frame is restored and the mutex still held.
C28_Witness ==
    \E t \in Threads :
        /\ pc[t] = "punlock" /\ Top(t).guard /\ mutex[Top(t).frame] = t
        /\ ACTIVE_FRAME[t] = Top(t).previously_active /\ ACTIVE_FRAME[t] # 0

\* ---- C29: a frame is initialized once

\* C29: while a frame lives its kind changes only once, from Uninitialized to
\* Root or Node, in the step that begins its first in_scope; the parent of a
\* Node never changes; and the step that begins a later in_scope of the frame,
\* by whichever thread and under whichever active frame, changes no kind, no
\* parent, no list and not the task set.
C29_InitializedOnce ==
    [][/\ \A f \in Frames :
            (mem[f] = "live" /\ mem'[f] = "live")
                => /\ kind'[f] # kind[f]
                        => /\ kind[f] = "Uninitialized"
                           /\ kind'[f] \in {"Root", "Node"}
                           /\ \E t \in Threads :
                                  pc[t] # "lock" /\ pc'[t] = "lock" /\ cur'[t] = f
                   /\ kind[f] = "Node" => parent'[f] = parent[f]
       /\ \A t \in Threads :
            (pc[t] # "lock" /\ pc'[t] = "lock" /\ kind[cur'[t]] # "Uninitialized")
                => /\ kind' = kind /\ parent' = parent
                   /\ TheLists' = TheLists
                   /\ TASK_SET' = TASK_SET]_vars

\* A root frame that has a child, so was polled before, is polled again inside
\* another task.
C29_Witness ==
    \E t \in Threads :
        /\ pc[t] = "lock" /\ kind[cur[t]] = "Root" /\ head[cur[t]] # 0
        /\ ACTIVE_FRAME[t] # 0

\* ---- C30: the order of the children

\* In the task trees drawn by InitFmt the frames were initialized in the order
\* of their numbers: a lower number is a less recently initialized frame.
\* The locations of the lines of a text, top to bottom.
TextLocations(text) == [i \in 1..Len(TextRead(text)) |-> TextRead(text)[i].loc]

\* What subframes yields, and a dump shows, when the children come from the
\* most recently initialized to the least recently initialized.
NewestFirst ==
    \A t \in Threads :
        (pc[t] = "dreturn" /\ ret[t].call = "taskdump_tree")
            => /\ \A f \in TreeFrames :
                    \A i, j \in 1..Len(subframes(TheLists, f)) :
                        i < j => subframes(TheLists, f)[i] > subframes(TheLists, f)[j]
               /\ (mem = [f \in TreeFrames |-> IF f <= 3 THEN "live" ELSE "free"]
                        /\ parent[2] = 1 /\ parent[3] = 1)
                      => TextLocations(ret[t].out)
                            = IF location[2] = location[3]
                              THEN <<LocName(location[1]), LocName(location[2])>>
                              ELSE <<LocName(location[1]), LocName(location[3]),
                                     LocName(location[2])>>

\* C30: subframes yields the children of a frame from the less recently
\* initialized to the more recently initialized, so that in a dump the child
\* that was polled first comes first.
C30_OldestChildFirst ==
    \A t \in Threads :
        (pc[t] = "dreturn" /\ ret[t].call = "taskdump_tree")
            => /\ \A f \in TreeFrames :
                    \A i, j \in 1..Len(subframes(TheLists, f)) :
                        i < j => subframes(TheLists, f)[i] < subframes(TheLists, f)[j]
               /\ (mem = [f \in TreeFrames |-> IF f <= 3 THEN "live" ELSE "free"]
                        /\ parent[2] = 1 /\ parent[3] = 1)
                      => TextLocations(ret[t].out)
                            = IF location[2] = location[3]
                              THEN <<LocName(location[1]), LocName(location[2])>>
                              ELSE <<LocName(location[1]), LocName(location[2]),
                                     LocName(location[3])>>

\* ---- C31: deep_eq

\* The frames of the task trees that are in use.
LiveTree == {f \in TreeFrames : mem[f] = "live"}

\* C31: deep_eq(a, b) is true exactly when a and b have the same location and
\* their children, in iteration order, are as many and pairwise deep_eq; that
\* is, when the two subtrees look the same. It is reflexive, symmetric and
\* transitive, and it has a value for every pair of frames of a finite forest.
C31_DeepEqIsEquivalence ==
    \A a, b \in LiveTree :
        LET sa == subframes(TheLists, a)
            sb == subframes(TheLists, b)
        IN  /\ deep_eq(TheLists, a, b) \in BOOLEAN
            /\ deep_eq(TheLists, a, b)
                    <=> /\ location[a] = location[b]
                        /\ Len(sa) = Len(sb)
                        /\ \A i \in 1..Len(sa) : deep_eq(TheLists, sa[i], sb[i])
            /\ deep_eq(TheLists, a, b) <=> Shape(a) = Shape(b)
            /\ deep_eq(TheLists, a, a)
            /\ deep_eq(TheLists, a, b) => deep_eq(TheLists, b, a)
            /\ \A c \in LiveTree :
                    (deep_eq(TheLists, a, b) /\ deep_eq(TheLists, b, c))
                        => deep_eq(TheLists, a, c)

\* A dump has rendered a task in which deep_eq had to tell apart two siblings
\* of one location, both with a child, and to find two others equal that have
\* a child each.
C31_Witness ==
    \E t \in Threads, a, b, c, d \in LiveTree :
        /\ pc[t] = "dreturn" /\ ret[t].call = "taskdump_tree"
        /\ a # b /\ c # d
        /\ head[a] # 0 /\ head[b] # 0 /\ location[a] = location[b]
        /\ ~deep_eq(TheLists, a, b)
        /\ head[c] # 0 /\ head[d] # 0 /\ deep_eq(TheLists, c, d)

\* ---- C32: the way up to the root

\* The items of k calls of next on a Backtrace whose frame field is curr.
RECURSIVE Yielded(_, _)
Yielded(curr, k) ==
    IF k = 0 THEN <<>>
    ELSE <<BacktraceNext(curr).item>> \o Yielded(BacktraceNext(curr).frame, k - 1)

\* C32: from every live initialized frame the parent references lead, in
\* finitely many steps, to a frame of kind Root, and root returns that frame;
\* backtrace yields the frame, its parent, and so on up to the root, each
\* once, and nothing on any call after that.
C32_ParentsLeadToRoot ==
    \A f \in DOMAIN mem :
        Initialized(f)
            => LET chain == backtrace(f, NTreeFrames)
                   n == Len(chain)
               IN  /\ n >= 1 /\ chain[1] = f
                   /\ \A i \in 1..(n - 1) : chain[i + 1] = Parent(chain[i])
                   /\ \A i, j \in 1..n : chain[i] = chain[j] => i = j
                   /\ \A i \in 1..n : Initialized(chain[i])
                   /\ kind[chain[n]] = "Root" /\ Parent(chain[n]) = 0
                   /\ \A i \in 1..(n - 1) : kind[chain[i]] = "Node"
                   /\ root(f) = chain[n]
                   /\ Yielded(f, NTreeFrames + 2)
                          = chain \o [i \in 1..(NTreeFrames + 2 - n) |-> 0]

\* A frame three levels below its root, which has a sibling, is being polled,
\* and backtrace() has returned its four locations.
C32_Witness ==
    \E t \in Threads :
        /\ pc[t] = "dreturn" /\ ret[t].call = "backtrace" /\ Len(ret[t].bt) = 4
        /\ Initialized(ACTIVE_FRAME[t])
        /\ root(ACTIVE_FRAME[t]) = Parent(Parent(Parent(ACTIVE_FRAME[t])))
        /\ kind[Parent(ACTIVE_FRAME[t])] = "Node"
        /\ next[ACTIVE_FRAME[t]] # 0 \/ prev[ACTIVE_FRAME[t]] # 0

\* ---- C33: what push_front and remove write

\* A sequence without the element x.
Without(seq, x) == SelectSeq(seq, LAMBDA y : y # x)

\* The lists after the step, as one value.
TheListsAfter == [head |-> head', tail |-> tail', prev |-> prev', next |-> next']

\* C33: push_front(node) makes node the head, with no prev and the old head as
\* its next, makes node the prev of the old head if there was one, and makes
\* node the tail only if the list was empty; remove(node) of a member joins
\* its two neighbours (or moves head or tail), clears prev and next of node,
\* and leaves the other members in the order they had. Neither writes any
\* other pointer.
C33_PushFrontAndRemove ==
    [][\A f \in DOMAIN mem :
        /\ (mem[f] = "free" /\ mem'[f] = "live")
               => LET p == parent'[f]
                      old == head[p]
                  IN  /\ head'[p] = f /\ prev'[f] = 0 /\ next'[f] = old
                      /\ old # 0 => prev'[old] = f /\ tail'[p] = tail[p]
                      /\ old = 0 => tail[p] = 0 /\ tail'[p] = f
                      /\ subframes(TheListsAfter, p) = <<f>> \o subframes(TheLists, p)
                      /\ \A g \in DOMAIN mem :
                            /\ g # p => head'[g] = head[g] /\ tail'[g] = tail[g]
                            /\ g # f => next'[g] = next[g]
                            /\ g \notin {f, old} => prev'[g] = prev[g]
        /\ (mem[f] = "live" /\ mem'[f] = "free")
               => LET p == parent[f]
                      pv == prev[f]
                      nx == next[f]
                  IN  /\ kind[f] = "Node"
                      /\ pv # 0 => next'[pv] = nx /\ head'[p] = head[p]
                      /\ pv = 0 => head[p] = f /\ head'[p] = nx
                      /\ nx # 0 => prev'[nx] = pv /\ tail'[p] = tail[p]
                      /\ nx = 0 => tail[p] = f /\ tail'[p] = pv
                      /\ prev'[f] = 0 /\ next'[f] = 0
                      /\ subframes(TheListsAfter, p) = Without(subframes(TheLists, p), f)
                      /\ \A g \in DOMAIN mem :
                            /\ g # p => head'[g] = head[g] /\ tail'[g] = tail[g]
                            /\ g \notin {f, pv} => next'[g] = next[g]
                            /\ g \notin {f, nx} => prev'[g] = prev[g]]_vars

\* A child has just been dropped from a list of four, in which it was neither
\* the first nor the last (frame 4, by its address, among 5, 3 and 2), and the
\* three others are in the order they had.
C33_Witness ==
    \E t \in Threads :
        /\ pc[t] = "dropped" /\ ACTIVE_FRAME[t] = 1
        /\ subframes(TheLists, 1) = <<5, 3, 2>>
        /\ mem[4] = "free" /\ prev[4] = 0 /\ next[4] = 0

\* ---- C34: remove of a node that is not in the list

\* The frames whose children list holds x.
HoldersOf(x) == {g \in DOMAIN mem : x \in ChildrenOf(g)}

\* A drop has just removed a child, and some list has three members or more.
AfterADrop ==
    \E t \in Threads :
        pc[t] = "dropped" /\ \E g \in DOMAIN mem : Len(subframes(TheLists, g)) >= 3

\* C34 as stated: remove(node) on a list that does not hold node returns None,
\* whichever node it is, one in the interior of another list included.
C34_RemoveOfNonMemberIsNone ==
    AfterADrop
        => \A p, node \in DOMAIN mem :
              node \notin ChildrenOf(p) => ~remove(TheLists, p, node).some

\* C34, amended: remove(node) on a list that does not hold node returns None
\* when node is in no list, or is the first or the last member of another
\* list; when node is in the interior of another list it is unlinked from
\* that list and Some is returned.
C34_RemoveOfUnlinkedIsNone ==
    \A p, node \in DOMAIN mem :
        node \notin ChildrenOf(p)
            => LET r == remove(TheLists, p, node)
               IN  /\ HoldersOf(node) = {} => ~r.some
                   /\ (prev[node] = 0 \/ next[node] = 0) => ~r.some
                   /\ (prev[node] # 0 /\ next[node] # 0)
                          => /\ r.some
                             /\ \A q \in HoldersOf(node) :
                                    subframes(r.lists, q)
                                        = Without(subframes(TheLists, q), node)
                             /\ r.lists.head = head /\ r.lists.tail = tail

\* A drop has just removed a child (the freed frame is in no list now), and
\* another frame is in the interior of a list of three.
C34_Witness ==
    \E t \in Threads, x, y \in DOMAIN mem :
        /\ pc[t] = "dropped"
        /\ mem[x] = "free" /\ HoldersOf(x) = {}
        /\ ~remove(TheLists, 1, x).some
        /\ mem[y] = "live" /\ prev[y] # 0 /\ next[y] # 0
        /\ \E p \in DOMAIN mem : y \notin ChildrenOf(p) /\ remove(TheLists, p, y).some

\* ---- C35: what a remove that returns None has written

C36_ListsWellFormed ==
    \A g \in DOMAIN mem :
        mem[g] = "live"
            => LET subs == subframes(TheLists, g)
                   n == Len(subs)
               IN  /\ head[g] = 0 <=> tail[g] = 0
                   /\ head[g] # 0 => prev[head[g]] = 0
                   /\ tail[g] # 0 => next[tail[g]] = 0
                   /\ \A i \in 1..n : next[subs[i]] # 0
                                          => prev[next[subs[i]]] = subs[i]
                   /\ \A i, j \in 1..n : subs[i] = subs[j] => i = j
                   /\ \A i \in 1..(n - 1) : next[subs[i]] = subs[i + 1]
                   /\ n > 0 => subs[1] = head[g] /\ subs[n] = tail[g]
                   /\ n = 0 => head[g] = 0
                   /\ \A i \in 1..n : mem[subs[i]] = "live" /\ parent[subs[i]] = g
                   /\ \A x \in DOMAIN mem :
                         (mem[x] = "live" /\ kind[x] = "Node" /\ parent[x] = g)
                             => \E i \in 1..n : subs[i] = x

\* A child has just been dropped from a list that was pushed to after an
\* earlier drop: it has three members, and the first has a lower address than
\* the second.
C36_Witness ==
    \E t \in Threads, g \in DOMAIN mem :
        /\ pc[t] = "dropped" /\ mem[g] = "live"
        /\ Len(subframes(TheLists, g)) = 3
        /\ subframes(TheLists, g)[1] < subframes(TheLists, g)[2]

\* ---- C37: the assertions inside the crate

\* C37: no assertion of the crate fails. When a frame is initialized as a
\* Root, register does not find it in the task set already; when a frame is
\* initialized as a Node, push_front is not given the head of the list; when
\* the frame of a Node is dropped, remove finds the node to be the next of its
\* prev and the prev of its next.
C37_AssertionsHold ==
    [][\A f \in DOMAIN mem :
        /\ (kind[f] = "Uninitialized" /\ kind'[f] = "Root")
               => f \notin TASK_SET /\ f \in TASK_SET'
        /\ (kind[f] = "Uninitialized" /\ kind'[f] = "Node")
               => head[parent'[f]] # f /\ head'[parent'[f]] = f
        /\ (mem[f] = "live" /\ kind[f] = "Node" /\ mem'[f] = "free")
               => /\ prev[f] # 0 => next[prev[f]] = f
                  /\ next[f] # 0 => prev[next[f]] = f
                  /\ \A i \in 1..Len(subframes(TheListsAfter, parent[f])) :
                        subframes(TheListsAfter, parent[f])[i] # f]_vars

\* Inside the poll of a registered task, a thread has just dropped an
\* initialized child of the root, whose list still has a member.
C37_Witness ==
    \E t \in Threads :
        /\ pc[t] = "dropped" /\ dropped[t] = 1
        /\ ACTIVE_FRAME[t] \in TASK_SET
        /\ head[ACTIVE_FRAME[t]] # 0

\* ---- C38: what a dump writes

\* The root mutexes thread t holds for the in_scope calls it is inside.
HeldByInScope(t) ==
    {stack[t][i].frame : i \in {j \in 1..Len(stack[t]) : stack[t][j].guard}}

\* C38: a dump is read-only. No step of taskdump_tree or pretty_tree changes
\* the task set, the kind, parent, children list or sibling pointers of any
\* frame, or the active frame of the caller; the only mutex a step touches is
\* that of the task it is rendering; and between two tasks, and when the
\* dump returns, the caller holds no mutex but those of the in_scope calls it
\* is inside.
C38_DumpIsReadOnly ==
    [][\A t \in Threads :
        (pc[t] \in DumpPcs /\ pc'[t] # pc[t])
            => /\ TASK_SET' = TASK_SET
               /\ kind' = kind /\ parent' = parent /\ mem' = mem
               /\ location' = location
               /\ head' = head /\ tail' = tail /\ prev' = prev /\ next' = next
               /\ ACTIVE_FRAME' = ACTIVE_FRAME /\ stack' = stack
               /\ poisoned' = poisoned
               /\ \A r \in DOMAIN mutex :
                     mutex'[r] # mutex[r]
                         => /\ r = dump[t].task
                            /\ \/ mutex[r] = 0 /\ mutex'[r] = t /\ pc'[t] = "dfmt"
                               \/ mutex[r] = t /\ mutex'[r] = 0 /\ pc[t] = "dfmt"
               /\ pc'[t] \in {"dnext", "dreturn", "unwind"}
                     => {r \in DOMAIN mutex : mutex'[r] = t} = HeldByInScope(t)]_vars

\* A dump called inside the poll of one task has returned after it took the
\* mutex of another, idle task and rendered that task's child.
C38_Witness ==
    \E t \in Threads, r \in TASK_SET :
        /\ pc[t] = "dreturn" /\ ret[t].call = "taskdump_tree"
        /\ ACTIVE_FRAME[t] # 0 /\ r # root(ACTIVE_FRAME[t])
        /\ mutex[r] = 0 /\ head[r] # 0 /\ head[r] \in ret[t].seen
        /\ mutex[root(ACTIVE_FRAME[t])] = t

\* ---- C39: the child lines of a rendered frame

\* The frames the lines below f stand for, top to bottom: one frame for each
\* maximal run of adjacent equal-looking siblings, followed by those below it.
RECURSIVE RepsBelow(_)
RECURSIVE RepsFrom(_, _)
RepsFrom(subs, i) ==
    IF i > Len(subs) THEN <<>>
    ELSE <<subs[i]>> \o RepsBelow(subs[i]) \o RepsFrom(subs, RunEnd(subs, i) + 1)

RepsBelow(f) == RepsFrom(subframes(TheLists, f), 1)

\* What a line of a text says: how many siblings it stands for, the glyph it
\* branches off with, and its depth by the column of that glyph.
LineCount(line) ==
    IF LineRead(line).n = "" THEN 1
    ELSE CHOOSE k \in 2..NTreeFrames : ToString(k) = LineRead(line).n

LineGlyph(line) == line[GlyphColumn(line) + 1]

LineDepth(line) == IF GlyphColumn(line) = 0 THEN 0 ELSE (GlyphColumn(line) + 1) \div 3

\* The lines, by their numbers, that are the child lines of line i.
ChildLines(lines, i) ==
    {j \in (i + 1)..Len(lines) :
        /\ LineDepth(lines[j]) = LineDepth(lines[i]) + 1
        /\ \A k \in (i + 1)..j : LineDepth(lines[k]) > LineDepth(lines[i])}

RECURSIVE SumCounts(_, _)
SumCounts(lines, S) ==
    IF S = {} THEN 0
    ELSE LET j == CHOOSE x \in S : TRUE
         IN  LineCount(lines[j]) + SumCounts(lines, S \ {j})

\* C39: under every rendered frame, the child lines stand, in order, for the
\* maximal runs of adjacent deep-equal children (equal children with a
\* different one between them get a line each), their counts add up to the
\* number of children, and the line with the last-child glyph is the one of
\* the final run.
C39_ChildLinesAreAdjacentRuns ==
    \A t \in Threads :
        (/\ pc[t] = "dreturn" /\ ret[t].call = "taskdump_tree" /\ TASK_SET = {1}
         /\ \A i \in 1..Len(ret[t].out) : ret[t].out[i] # "[POLLING]")
            => LET lines == SplitLines(ret[t].out, 1, <<>>)
                   reps == <<1>> \o RepsBelow(1)
               IN  /\ Len(lines) = Len(reps)
                   /\ \A i \in 1..Len(lines) :
                         LET subs == subframes(TheLists, reps[i])
                             kids == ChildLines(lines, i)
                         IN  /\ SumCounts(lines, kids) = Len(subs)
                             /\ Cardinality(kids)
                                   = Cardinality({k \in 1..Len(subs) :
                                        k = Len(subs)
                                        \/ Shape(subs[k]) # Shape(subs[k + 1])})
                             /\ \A j \in kids :
                                   LET start == 1 + SumCounts(lines,
                                                    {k \in kids : k < j})
                                   IN  /\ start <= Len(subs)
                                       /\ LineCount(lines[j])
                                             = RunEnd(subs, start) - start + 1
                                       /\ Shape(reps[j]) = Shape(subs[start])
                                       /\ LineGlyph(lines[j]) = "^"
                                             <=> RunEnd(subs, start) = Len(subs)
                                       /\ LineGlyph(lines[j]) = "+"
                                             <=> RunEnd(subs, start) < Len(subs)
                                       /\ LineGlyph(lines[j]) = "^" <=> j = Max(kids)

\* A dump has returned the text of a task in which a frame has four children:
\* two that look the same with a different one between them, and the last
\* equal to the one before it.
C39_Witness ==
    \E t \in Threads, f \in TreeFrames :
        /\ pc[t] = "dreturn" /\ ret[t].call = "taskdump_tree"
        /\ LET subs == subframes(TheLists, f)
           IN  /\ Len(subs) = 4
               /\ Shape(subs[1]) = Shape(subs[3])
               /\ Shape(subs[1]) # Shape(subs[2])
               /\ Shape(subs[3]) = Shape(subs[4])

\* ---- C40 ------------------------------------------------------------------

\* Thread t is at the mutex.lock() of in_scope, asking for a root mutex that
\* it holds itself.
InScopeLocksOwnMutex(t) ==
    pc[t] = "lock" /\ HasMutex(cur[t]) /\ mutex[cur[t]] = t

\* Thread t is at the mutex.lock() of a blocking pretty_tree, asking for the
\* root mutex of a task that it holds itself.
DumpLocksOwnMutex(t) ==
    /\ pc[t] = "dlock" /\ dump[t].block
    /\ NeedsLock(t, dump[t].task)
    /\ mutex[dump[t].task] = t

\* C40 as stated: no thread ever asks, with a blocking lock(), for a root
\* mutex that it already holds; neither in in_scope nor in a blocking dump,
\* also when a Root frame is polled inside the in_scope of another task.
C40_NoBlockingLockOfOwnMutex ==
    \A t \in Threads : ~InScopeLocksOwnMutex(t) /\ ~DumpLocksOwnMutex(t)

\* The half of C40 about in_scope alone: in_scope never asks for a root mutex
\* that the polling thread holds.
C40_InScopeNeverLocksOwnMutex ==
    \A t \in Threads : ~InScopeLocksOwnMutex(t)

\* The case C40 names: a thread inside the in_scope of one task polls the Root
\* of another task, calls taskdump_tree(true) there, and comes to the lock of
\* the outer task.
C40_NestedRootDumpLocksOuterTask ==
    \E t \in Threads :
        /\ DumpLocksOwnMutex(t)
        /\ Len(stack[t]) >= 2
        /\ kind[ACTIVE_FRAME[t]] = "Root"
        /\ current_task(t) = ACTIVE_FRAME[t]
        /\ mutex[ACTIVE_FRAME[t]] = t
        /\ dump[t].task # ACTIVE_FRAME[t]

====
